---- MODULE Spec2Model ----
(***************************************************************************)
(* A2gClient (typescript/a2g-sdk/src/client.ts): the connection manager,   *)
(* the request correlator and their timers, as a state machine.  One step  *)
(* is one event-loop task: a call of a public method or one callback       *)
(* (socket event, timer), together with the promise continuations that     *)
(* run before the next task.                                               *)
(***************************************************************************)
EXTENDS Integers, Sequences, FiniteSets, TLC

\* ---------------------------------------------------------------- bounds
MaxSessions == 2        \* WebSocket objects alive at the same time
MaxRequests == 2        \* requestIntent calls in a run
MaxConnects == 2        \* connect() calls in a run, by whoever makes them
MaxBackoff == 8         \* reconnect backoff timers outstanding at the same time
TickMs == 5000          \* granularity of the clock
ConfiguredTimeoutMs == 2500   \* a requestTimeoutMs a caller may configure
ABNORMAL_CLOSURE == 1006      \* the close code that stands for every code but 1000

\* ------------------------------------------------------ program constants
DEFAULT_TIMEOUT_MS == 5000
MAX_RECONNECT_ATTEMPTS == 5
BASE_RECONNECT_DELAY_MS == 1000
MAX_RECONNECT_DELAY_MS == 30000
JITTER_MS == 1000
NORMAL_CLOSURE == 1000

Sessions == 1..MaxSessions
Requests == 1..MaxRequests
NoSession == 0
Cleared == 0 - 1
UnknownId == MaxRequests + 1
Verdicts == {"APPROVED", "DENIED"}
CloseCodes == {NORMAL_CLOSURE, ABNORMAL_CLOSURE}
\* Math.random() * 1000 lies in [0, 1000): its two ends, in whole ms
Jitters == {0, JITTER_MS - 1}

VARIABLES
    config,             \* A2gClientConfig: autoReconnect, requestTimeoutMs (0: not
                        \* set), signingKey (<<>>: not set)
    client,             \* which build of the a2g-sdk runs: src or dist
    ws,                 \* this.ws: a session, or NoSession for null
    pendingRequests,    \* keys of this.pendingRequests
    reconnectAttempt,   \* this.reconnectAttempt
    isReconnecting,     \* this.isReconnecting
    readyState,         \* per WebSocket object: NONE (no object), CONNECTING, OPEN, CLOSING
    connectionTimeout,  \* per connect(): its connectionTimeout timer is armed
    connectPromise,     \* per connect(): none, pending, resolved, rejected
    waiter,             \* per connect(): who awaits it: caller, reconnect, request
    awaits,             \* per request: the session whose connect() it awaits
    timeout,            \* per request: ms left on its deadline timer, or Cleared
    backoff,            \* number of outstanding reconnect backoff timers
    delay,              \* the delay of the backoff timer armed last, while one is outstanding
    outcome,            \* per request: state of the promise requestIntent returned
    result,             \* per request: the verdict it was resolved with
    settled,            \* per request: the settlement events that fired for it
    closeCall,          \* per WebSocket object: the close(...) call the client made on it
    wire,               \* request ids written to the transport, in order
    sentOn,             \* per request: the session it was written to, or NoSession
    headers,            \* per WebSocket object: the signature headers of its handshake
    callArgs,           \* per request: the arguments of its requestIntent call
    intent,             \* per request: the intent message built for it
    intentIdMap,        \* this.intentIdMap: per context object, an intent id or none
    reports,            \* the a2g/report messages written to the transport, in order
    nReq,               \* requestIntent calls made so far
    nConn,              \* connect() calls made so far
    disconnected,       \* disconnect() was the caller's latest connection request
    last,               \* the task that ran last
    build,              \* which build of the did-sdk runs: src or dist
    now,                \* what Date.now() reads
    signCall,           \* the latest Signer.sign call: its arguments and what it returned
    sig,                \* the signature in circulation: as signed, or altered since
    verifyCall,         \* the Signer.verify call made in the step that led here
    compareCall,        \* the constantTimeEqual call made, and how its loop ran
    files,              \* FileStorage: per name that has a file, what the file holds
    saved,              \* per name that has a file, the document it was written from
    held,               \* the identity the caller holds: a document, or NoIdentity
    didCall,            \* the did-sdk call made in the step that led here
    nCreate             \* AeonDID.create calls made so far

signerVars == <<build, now, signCall, sig, verifyCall, compareCall>>

clientVars == <<config, client, ws, pendingRequests, reconnectAttempt, isReconnecting,
                readyState, connectionTimeout, connectPromise, waiter, awaits, timeout,
                backoff, delay, outcome, result, settled, closeCall, wire, sentOn,
                headers,
                callArgs, intent, intentIdMap, reports, nReq, nConn, disconnected, last>>

didVars == <<files, saved, held, didCall, nCreate>>

vars == <<clientVars, signerVars, didVars>>

\* The client and its environment as one record: what the handlers transform.
Cur ==
    [ws |-> ws, pendingRequests |-> pendingRequests,
     reconnectAttempt |-> reconnectAttempt, isReconnecting |-> isReconnecting,
     readyState |-> readyState, connectionTimeout |-> connectionTimeout,
     connectPromise |-> connectPromise, waiter |-> waiter, awaits |-> awaits,
     timeout |-> timeout, backoff |-> backoff, delay |-> delay,
     outcome |-> outcome,
     result |-> result, settled |-> settled, closeCall |-> closeCall, wire |-> wire,
     sentOn |-> sentOn,
     headers |-> headers, callArgs |-> callArgs, intent |-> intent,
     intentIdMap |-> intentIdMap, reports |-> reports]

Becomes(c) ==
    /\ ws' = c.ws
    /\ pendingRequests' = c.pendingRequests
    /\ reconnectAttempt' = c.reconnectAttempt
    /\ isReconnecting' = c.isReconnecting
    /\ readyState' = c.readyState
    /\ connectionTimeout' = c.connectionTimeout
    /\ connectPromise' = c.connectPromise
    /\ waiter' = c.waiter
    /\ awaits' = c.awaits
    /\ timeout' = c.timeout
    /\ backoff' = c.backoff
    /\ delay' = c.delay
    /\ outcome' = c.outcome
    /\ result' = c.result
    /\ settled' = c.settled
    /\ closeCall' = c.closeCall
    /\ wire' = c.wire
    /\ sentOn' = c.sentOn
    /\ headers' = c.headers
    /\ callArgs' = c.callArgs
    /\ intent' = c.intent
    /\ intentIdMap' = c.intentIdMap
    /\ reports' = c.reports

\* What a task was: its kind, the request it was about (0: none) and the code of
\* the "close" event handled in it (0: none).
Event(op, r, code) == [op |-> op, r |-> r, code |-> code]

\* A promise settles once: resolve/reject on a settled promise changes nothing.
SettlePromise(p, v) == IF p = "pending" THEN v ELSE p

\* ------------------------------------------- Signer (did-sdk): its strings
\* A string is a sequence of characters (strings of length one).
\* charCodeAt: the UTF-16 code unit of each character strings are made of here
charCodeAt ==
    [ch \in {" ", "\"", "+", ",", "-", "0", "1", "2", "3", "4", "5", "6", "7", "8",
             "9", ":", "A", "[", "]", "_", "a", "b", "c", "d", "h", "i", "j", "k", "n", "s",
             "t", "x", "{", "|", "}"} |->
        CASE ch = " " -> 32 [] ch = "\"" -> 34 [] ch = "+" -> 43 [] ch = "," -> 44
          [] ch = "-" -> 45 [] ch = "0" -> 48 [] ch = "1" -> 49 [] ch = "2" -> 50
          [] ch = "3" -> 51 [] ch = "4" -> 52 [] ch = "5" -> 53 [] ch = "6" -> 54
          [] ch = "7" -> 55 [] ch = "8" -> 56 [] ch = "9" -> 57 [] ch = ":" -> 58
          [] ch = "A" -> 65
          [] ch = "[" -> 91 [] ch = "]" -> 93 [] ch = "_" -> 95 [] ch = "a" -> 97
          [] ch = "b" -> 98 [] ch = "c" -> 99 [] ch = "d" -> 100 [] ch = "h" -> 104
          [] ch = "i" -> 105 [] ch = "j" -> 106 [] ch = "k" -> 107 [] ch = "n" -> 110
          [] ch = "s" -> 115 [] ch = "t" -> 116 [] ch = "x" -> 120
          [] ch = "{" -> 123 [] ch = "|" -> 124 [] ch = "}" -> 125]

Digits == <<"0", "1", "2", "3", "4", "5", "6", "7", "8", "9">>
IsDigit(ch) == \E d \in 1..Len(Digits) : Digits[d] = ch
DigitValue(ch) == (CHOOSE d \in 1..Len(Digits) : Digits[d] = ch) - 1

\* Number.prototype.toString() of a non-negative integer: its decimal digits
RECURSIVE toString(_)
toString(n) ==
    IF n < Len(Digits) THEN <<Digits[n + 1]>>
    ELSE toString(n \div Len(Digits)) \o <<Digits[(n % Len(Digits)) + 1]>>

\* What parseInt gives: an integer, or NaN for a string with no digits to read
NaN == [isNaN |-> TRUE, n |-> 0]
Number(n) == [isNaN |-> FALSE, n |-> n]

RECURSIVE TrimStart(_)
TrimStart(str) ==
    IF str # <<>> /\ str[1] = " " THEN TrimStart(Tail(str)) ELSE str

\* The value of the longest prefix of str made of digits, from acc on
RECURSIVE ReadDigits(_, _)
ReadDigits(str, acc) ==
    IF str # <<>> /\ IsDigit(str[1])
    THEN ReadDigits(Tail(str), acc * Len(Digits) + DigitValue(str[1]))
    ELSE acc

\* parseInt(str, 10): leading white space is skipped, a sign is read, then the
\* digits up to the first character that is none; NaN when there is no digit
parseInt(str) ==
    LET trimmed == TrimStart(str)
        signed  == trimmed # <<>> /\ trimmed[1] \in {"+", "-"}
        body    == IF signed THEN Tail(trimmed) ELSE trimmed
    IN  IF body = <<>> \/ ~IsDigit(body[1]) THEN NaN
        ELSE IF signed /\ trimmed[1] = "-" THEN Number(0 - ReadDigits(body, 0))
        ELSE Number(ReadDigits(body, 0))

\* ------------------------------------------------ Signer: structured values
\* A message is a string or a JSON value: a number, a string, an array of
\* values, or an object, whose members are kept in the order they were
\* inserted; a member may hold undefined.
Str(chars) == [type |-> "string", chars |-> chars]
Date(ms) == [type |-> "date", ms |-> ms]
Undef == [type |-> "undefined"]
Num(n) == [type |-> "number", n |-> n]
Arr(items) == [type |-> "array", items |-> items]
Obj(members) == [type |-> "object", members |-> members]
Member(key, value) == [key |-> key, value |-> value]

\* Object.keys(value): own keys in insertion order; the indices of an array
ObjectKeys(value) ==
    IF value.type = "object"
    THEN [i \in 1..Len(value.members) |-> value.members[i].key]
    ELSE IF value.type = "array"
    THEN [i \in 1..Len(value.items) |-> Digits[i]]
    ELSE <<>>

HasKey(obj, key) == \E i \in 1..Len(obj.members) : obj.members[i].key = key
Get(obj, key) ==
    obj.members[CHOOSE i \in 1..Len(obj.members) : obj.members[i].key = key].value

\* Array.prototype.sort() on keys: ascending by code unit (keys are one
\* character long)
RECURSIVE SortKeys(_)
SortKeys(keys) ==
    IF keys = <<>> THEN <<>>
    ELSE LET least == CHOOSE i \in 1..Len(keys) :
                          \A j \in 1..Len(keys) :
                              charCodeAt[keys[i]] <= charCodeAt[keys[j]]
         IN  <<keys[least]>> \o
             SortKeys([i \in 1..(Len(keys) - 1) |->
                          IF i < least THEN keys[i] ELSE keys[i + 1]])

RECURSIVE Join(_)
Join(parts) ==
    IF parts = <<>> THEN <<>>
    ELSE IF Len(parts) = 1 THEN parts[1]
    ELSE parts[1] \o <<",">> \o Join(Tail(parts))

\* The digits of n, with zeros in front up to the given width
RECURSIVE padStart(_, _)
padStart(str, width) ==
    IF Len(str) >= width THEN str ELSE padStart(<<"0">> \o str, width)

\* toISOString that writes whole seconds only
toISOStringWholeSeconds(ms) ==
    toString(ms \div 1000) \o <<".">> \o padStart(<<>>, 3) \o <<"Z">>

\* Date.prototype.toISOString() of the instant ms milliseconds after the
\* epoch: the date and the time of day down to the second, ".", three digits
\* of milliseconds, "Z".  The fields down to the second are written here as
\* one count of seconds.
toISOString(ms) ==
    toString(ms \div 1000) \o <<".">> \o padStart(toString(ms % 1000), 3) \o <<"Z">>

\* new Date(str) for a string in that format: the instant it denotes
newDate(str) ==
    LET dot == CHOOSE i \in 1..Len(str) : str[i] = "."
    IN  Date(ReadDigits(SubSeq(str, 1, dot - 1), 0) * 1000
             + ReadDigits(SubSeq(str, dot + 1, dot + 3), 0))

\* No replacer, or the property list a replacer array stands for
NoReplacer == [given |-> FALSE, list |-> <<>>]
PropertyList(keys) == [given |-> TRUE, list |-> keys]

\* JSON.stringify(value, replacer): with a property list every object, at any
\* depth, is written with the listed keys it has, in the order of the list;
\* without one, with its own keys in insertion order.  Arrays are written
\* whole and in order either way; a member that holds undefined is left out; a
\* Date is written as the string its toJSON gives.
\* (No string here has a character that JSON escapes.)
RECURSIVE JSONstringify(_, _)
JSONstringify(value, replacer) ==
    IF value.type = "number" THEN toString(value.n)
    ELSE IF value.type = "string" THEN <<"\"">> \o value.chars \o <<"\"">>
    ELSE IF value.type = "date" THEN <<"\"">> \o toISOString(value.ms) \o <<"\"">>
    ELSE IF value.type = "array"
    THEN <<"[">> \o Join([i \in 1..Len(value.items) |->
                            JSONstringify(value.items[i], replacer)]) \o <<"]">>
    ELSE LET listed  == IF replacer.given
                        THEN SelectSeq(replacer.list, LAMBDA k : HasKey(value, k))
                        ELSE ObjectKeys(value)
             keys    == SelectSeq(listed, LAMBDA k : Get(value, k).type # "undefined")
         IN  <<"{">> \o Join([i \in 1..Len(keys) |->
                          <<"\"", keys[i], "\"", ":">> \o
                          JSONstringify(Get(value, keys[i]), replacer)]) \o <<"}">>

\* sortKeys (dist/src/signer.js): arrays element by element, objects rebuilt
\* with their keys in sorted order, at every depth
RECURSIVE sortKeys(_)
sortKeys(value) ==
    IF value.type = "array"
    THEN Arr([i \in 1..Len(value.items) |-> sortKeys(value.items[i])])
    ELSE IF value.type = "object"
    THEN LET keys == SortKeys(ObjectKeys(value))
         IN  Obj([i \in 1..Len(keys) |->
                     Member(keys[i], sortKeys(Get(value, keys[i])))])
    ELSE value

\* The two builds of the package: src/signer.ts as it stands, and the compiled
\* dist/src/signer.js
Builds == {"src", "dist"}

\* stableStringify without the sort: keys as they were inserted
stableStringifyUnsorted(b, obj) ==
    IF b = "src" THEN JSONstringify(obj, PropertyList(ObjectKeys(obj)))
    ELSE JSONstringify(obj, NoReplacer)

\* stableStringify.  src: JSON.stringify(obj, Object.keys(obj).sort());
\* dist: JSON.stringify(this.sortKeys(value))
stableStringify(b, obj) ==
    IF b = "src" THEN JSONstringify(obj, PropertyList(SortKeys(ObjectKeys(obj))))
    ELSE JSONstringify(sortKeys(obj), NoReplacer)

\* --------------------------------------------------- Signer: the functions
RECURSIVE BitXor(_, _)
BitXor(a, b) ==
    IF a = 0 THEN b
    ELSE IF b = 0 THEN a
    ELSE 2 * BitXor(a \div 2, b \div 2) + ((a + b) % 2)

\* The characters a SHA-256 digest has in hex
DigestLength == 64

\* createHmac("sha256", key).update(data).digest("hex"), taken as free of
\* collisions: a string of DigestLength characters that determines key and
\* data (each is written out in it, and "|" and "_" occur in neither).
createHmac(key, data) ==
    LET body == key \o <<"|">> \o data
    IN  body \o [i \in 1..(DigestLength - Len(body)) |-> "_"]

\* What stands for an argument or an option that is not given
Undefined == 0 - 1
\* SignOptions: the options a caller supplies, and their values (<<>> for
\* one that is not supplied, as for one supplied as the empty string)
Options(timestamp, nonce, supplied) ==
    [timestamp |-> timestamp, nonce |-> nonce, supplied |-> supplied]
NoOptions == Options(<<>>, <<>>, {})

\* No signature
NoSignature == [timestamp |-> <<>>, nonce |-> <<>>, hash |-> <<>>]

\* Signer.sign(signingKey, message, options) when Date.now() reads clock and
\* uuidv4() gives uuid.  An option that is not given and one that is the empty
\* string are both falsy, and are both <<>> here.
sign(b, signingKey, message, options, clock, uuid) ==
    LET timestamp  == IF options.timestamp = <<>> THEN toString(clock)
                      ELSE options.timestamp
        nonce      == IF options.nonce = <<>> THEN uuid ELSE options.nonce
        messageStr == IF message.type = "string" THEN message.chars
                      ELSE stableStringify(b, message)
        payload    == timestamp \o <<":">> \o nonce \o <<":">> \o messageStr
    IN  [timestamp |-> timestamp, nonce |-> nonce,
         hash |-> createHmac(signingKey, payload)]

\* Signer.hash(signingKey, message)
hash(b, signingKey, message) ==
    createHmac(signingKey,
               IF message.type = "string" THEN message.chars
               ELSE stableStringify(b, message))

\* Bit k of n
Bit(n, k) == (n \div 2^k) % 2

\* The bits of a UTF-16 code unit
CodeUnitBits == 0..15

\* The loop of constantTimeEqual: what `result` holds after the rounds
\* result |= a.charCodeAt(i) ^ b.charCodeAt(i) for i = 0 .. a.length - 1.
\* A bit of it is set when it is set in the XOR of some round.
BitsOf(n) == {k \in CodeUnitBits : Bit(n, k) = 1}

orOfXors(a, b) ==
    LET differ == {i \in 1..Len(a) : BitXor(charCodeAt[a[i]], charCodeAt[b[i]]) # 0}
        set == UNION {BitsOf(BitXor(charCodeAt[a[i]], charCodeAt[b[i]])) : i \in differ}
        RECURSIVE Weigh(_)
        Weigh(bits) == IF bits = {} THEN 0
                       ELSE LET k == CHOOSE j \in bits : TRUE
                            IN  2^k + Weigh(bits \ {k})
    IN  Weigh(set)

RECURSIVE BitOr(_, _)
BitOr(a, b) ==
    IF a = 0 THEN b
    ELSE IF b = 0 THEN a
    ELSE 2 * BitOr(a \div 2, b \div 2) + (IF a % 2 = 1 \/ b % 2 = 1 THEN 1 ELSE 0)

\* The loop that leaves at the first position where the strings differ
RECURSIVE constantTimeLoopEarlyExit(_, _, _, _, _)
constantTimeLoopEarlyExit(a, b, i, acc, rounds) ==
    IF i > Len(a) \/ acc # 0 THEN [result |-> acc, rounds |-> rounds]
    ELSE constantTimeLoopEarlyExit(
             a, b, i + 1,
             BitOr(acc, BitXor(charCodeAt[a[i]], charCodeAt[b[i]])),
             rounds + 1)

\* for (let i = 0; i < a.length; i++) result |= a.charCodeAt(i) ^ b.charCodeAt(i)
\* from position i on (positions count from 1 here), round by round: what
\* `result` holds at the end and the rounds that ran
RECURSIVE constantTimeLoop(_, _, _, _, _)
constantTimeLoop(a, b, i, acc, rounds) ==
    IF i > Len(a) THEN [result |-> acc, rounds |-> rounds]
    ELSE constantTimeLoop(
             a, b, i + 1,
             BitOr(acc, BitXor(charCodeAt[a[i]], charCodeAt[b[i]])),
             rounds + 1)

\* constantTimeEqual(a, b) run step by step: what it returns and the rounds
\* its loop ran
constantTimeRun(a, b) ==
    IF Len(a) # Len(b) THEN [ret |-> FALSE, rounds |-> 0]
    ELSE LET end == constantTimeLoop(a, b, 1, 0, 0)
         IN  [ret |-> end.result = 0, rounds |-> end.rounds]

\* constantTimeEqual that stops at the length check
constantTimeEqualLengthOnly(a, b) == Len(a) = Len(b)

\* Signer.constantTimeEqual(a, b)
constantTimeEqual(a, b) ==
    IF Len(a) # Len(b) THEN FALSE
    ELSE orOfXors(a, b) = 0

\* verify with `>=` for `>` in the age check
verifyExpiresEarly(b, signingKey, signature, message, maxAgeMs, clock, uuid) ==
    LET maxAge   == IF maxAgeMs = Undefined THEN 5 * 60 * 1000 ELSE maxAgeMs
        signedAt == parseInt(signature.timestamp)
    IN  IF ~signedAt.isNaN /\ clock - signedAt.n >= maxAge THEN FALSE
        ELSE constantTimeEqual(
                 signature.hash,
                 sign(b, signingKey, message,
                      Options(signature.timestamp, signature.nonce,
                              {"timestamp", "nonce"}),
                      clock, uuid).hash)

\* verify that recomputes the signature with a timestamp and a nonce of its own
verifyFreshPayload(b, signingKey, signature, message, maxAgeMs, clock, uuid) ==
    LET maxAge   == IF maxAgeMs = Undefined THEN 5 * 60 * 1000 ELSE maxAgeMs
        signedAt == parseInt(signature.timestamp)
    IN  IF ~signedAt.isNaN /\ clock - signedAt.n > maxAge THEN FALSE
        ELSE constantTimeEqual(
                 signature.hash,
                 sign(b, signingKey, message, NoOptions, clock + 1, uuid).hash)

\* Signer.verify(signingKey, signature, message, maxAgeMs) when Date.now()
\* reads clock.  A comparison with NaN is false: a timestamp that parses to
\* NaN passes the age check.
verify(b, signingKey, signature, message, maxAgeMs, clock, uuid) ==
    LET maxAge   == IF maxAgeMs = Undefined THEN 5 * 60 * 1000 ELSE maxAgeMs
        signedAt == parseInt(signature.timestamp)
    IN  IF ~signedAt.isNaN /\ clock - signedAt.n > maxAge THEN FALSE
        ELSE constantTimeEqual(
                 signature.hash,
                 sign(b, signingKey, message,
                      Options(signature.timestamp, signature.nonce,
                              {"timestamp", "nonce"}),
                      clock, uuid).hash)

\* ------------------------------------------------- AeonDID and FileStorage
\* JSON.parse(text) for what JSON.stringify writes here: numbers, strings,
\* arrays and objects.  Each Parse... reads one construct that starts at
\* position i and gives its value and the position after it.
RECURSIVE ParseValue(_, _), ParseItems(_, _, _), ParseMembers(_, _, _)
ParseValue(text, i) ==
    IF text[i] = "\""
    THEN LET close == CHOOSE k \in (i + 1)..Len(text) :
                          /\ text[k] = "\""
                          /\ \A j \in (i + 1)..(k - 1) : text[j] # "\""
         IN  [value |-> Str(SubSeq(text, i + 1, close - 1)), next |-> close + 1]
    ELSE IF IsDigit(text[i])
    THEN LET end == CHOOSE k \in i..Len(text) :
                        /\ \A j \in i..k : IsDigit(text[j])
                        /\ k = Len(text) \/ ~IsDigit(text[k + 1])
         IN  [value |-> Num(ReadDigits(SubSeq(text, i, end), 0)), next |-> end + 1]
    ELSE IF text[i] = "["
    THEN IF text[i + 1] = "]" THEN [value |-> Arr(<<>>), next |-> i + 2]
         ELSE ParseItems(text, i + 1, <<>>)
    ELSE IF text[i + 1] = "}" THEN [value |-> Obj(<<>>), next |-> i + 2]
         ELSE ParseMembers(text, i + 1, <<>>)

ParseItems(text, i, items) ==
    LET item == ParseValue(text, i)
        all  == Append(items, item.value)
    IN  IF text[item.next] = "," THEN ParseItems(text, item.next + 1, all)
        ELSE [value |-> Arr(all), next |-> item.next + 1]

\* (a key is one element of the text)
ParseMembers(text, i, members) ==
    LET key   == ParseValue(text, i)
        held_ == ParseValue(text, key.next + 1)
        all   == Append(members, Member(key.value.chars[1], held_.value))
    IN  IF text[held_.next] = "," THEN ParseMembers(text, held_.next + 1, all)
        ELSE [value |-> Obj(all), next |-> held_.next + 1]

JSONparse(text) == ParseValue(text, 1).value

\* obj[key]: undefined when obj has no such member
Field(obj, key) == IF HasKey(obj, key) THEN Get(obj, key) ELSE Undef

\* obj[key] = value: in place when obj has the member, a new last member
\* otherwise
SetMember(obj, key, value) ==
    IF HasKey(obj, key)
    THEN Obj([i \in 1..Len(obj.members) |->
                 IF obj.members[i].key = key THEN Member(key, value)
                 ELSE obj.members[i]])
    ELSE Obj(Append(obj.members, Member(key, value)))

\* [a-z0-9]
IsLowerOrDigit(ch) ==
    LET code == charCodeAt[ch]
    IN  \/ code >= charCodeAt["a"] /\ code <= 122
        \/ code >= charCodeAt["0"] /\ code <= charCodeAt["9"]

\* [a-z0-9-]
IsNameChar(ch) == IsLowerOrDigit(ch) \/ ch = "-"

\* The pattern without its requirement on the last character
NamePatternOpenEnd(name) ==
    \/ /\ Len(name) >= 2
       /\ IsLowerOrDigit(name[1])
       /\ \A i \in 2..Len(name) : IsNameChar(name[i])
    \/ /\ Len(name) = 1
       /\ IsLowerOrDigit(name[1])

\* /^[a-z0-9][a-z0-9-]*[a-z0-9]$|^[a-z0-9]$/.test(name)
NamePattern(name) ==
    \/ /\ Len(name) >= 2
       /\ IsLowerOrDigit(name[1])
       /\ \A i \in 2..(Len(name) - 1) : IsNameChar(name[i])
       /\ IsLowerOrDigit(name[Len(name)])
    \/ /\ Len(name) = 1
       /\ IsLowerOrDigit(name[1])

\* CreateDIDOptions: signingKey (<<>>: not given, or the empty string) and
\* metadata (Undef: not given)
CreateDIDOptions(signingKey, metadata) ==
    [signingKey |-> signingKey, metadata |-> metadata]

\* What a call gave: the value it returned, or that it threw
Returned(value) == [threw |-> FALSE, value |-> value]
Threw == [threw |-> TRUE, value |-> Undef]

DidPrefix == <<"d", "i", "d", ":", "a", "e", "o", "n", ":">>

\* AeonDID.create(name, options) when Date.now() reads clock and
\* Signer.generateKey() gives generated: the document of the new identity
create(name, options, clock, generated) ==
    IF name = <<>> \/ ~NamePattern(name) THEN Threw
    ELSE Returned(Obj(<<
             Member("did", Str(DidPrefix \o name)),
             Member("name", Str(name)),
             Member("signingKey", Str(IF options.signingKey # <<>>
                                      THEN options.signingKey ELSE generated)),
             Member("createdAt", Date(clock)),
             Member("metadata", options.metadata)>>))

\* FileStorage.getPath(name), below the base path
getPath(name) == name \o <<".json">>

\* fs.writeFile(path, data) on the files fs
writeFile(fs, path, data) ==
    [p \in (DOMAIN fs) \cup {path} |-> IF p = path THEN data ELSE fs[p]]

\* FileStorage.save(doc): the files after it.  (The white space of the
\* indentation is not written here; JSON.parse skips it.)
save(fs, doc) ==
    writeFile(fs, getPath(Field(doc, "name").chars), JSONstringify(doc, NoReplacer))

Null == [type |-> "null"]

\* FileStorage.load(name): reading a file that is not there throws, and null
\* is returned
load(fs, name) ==
    LET path == getPath(name)
    IN  IF path \notin DOMAIN fs THEN Null
        ELSE LET doc == JSONparse(fs[path])
             IN  SetMember(doc, "createdAt", newDate(Field(doc, "createdAt").chars))

\* FileStorage.delete(name): the files after it, and what it returns
delete(fs, name) ==
    LET path == getPath(name)
    IN  [files |-> [p \in (DOMAIN fs) \ {path} |-> fs[p]],
         ret   |-> path \in DOMAIN fs]

\* ------------------------------------------------------------- the config
\* this.config.requestTimeoutMs || DEFAULT_TIMEOUT_MS
timeoutMs == IF config.requestTimeoutMs = 0 THEN DEFAULT_TIMEOUT_MS
             ELSE config.requestTimeoutMs

Min(a, b) == IF a < b THEN a ELSE b
Max(a, b) == IF a > b THEN a ELSE b

RECURSIVE Pow2(_)
Pow2(n) == IF n = 0 THEN 1 ELSE 2 * Pow2(n - 1)

\* reconnectDelay with 2^attempt for 2^(attempt-1)
reconnectDelayDoubled(attempt, jitter) ==
    Min(BASE_RECONNECT_DELAY_MS * Pow2(attempt), MAX_RECONNECT_DELAY_MS) + jitter

\* Math.min(BASE * 2^(attempt-1), 30000) + Math.random() * 1000
reconnectDelay(attempt, jitter) ==
    Min(BASE_RECONNECT_DELAY_MS * Pow2(attempt - 1), MAX_RECONNECT_DELAY_MS) + jitter

\* ------------------------------------------------- A2gClient, its handlers
\* scheduleReconnect with `>` for `>=` in its guard
scheduleReconnectOneMore(c, jitter) ==
    IF c.isReconnecting \/ c.reconnectAttempt > MAX_RECONNECT_ATTEMPTS
    THEN c
    ELSE [c EXCEPT !.isReconnecting = TRUE,
                   !.reconnectAttempt = @ + 1,
                   !.backoff = @ + 1,
                   !.delay = reconnectDelay(c.reconnectAttempt + 1, jitter)]

\* scheduleReconnect(): the guard, the counter, the backoff timer
scheduleReconnect(c, jitter) ==
    IF c.isReconnecting \/ c.reconnectAttempt >= MAX_RECONNECT_ATTEMPTS
    THEN c
    ELSE [c EXCEPT !.isReconnecting = TRUE,
                   !.reconnectAttempt = @ + 1,
                   !.backoff = @ + 1,
                   !.delay = reconnectDelay(c.reconnectAttempt + 1, jitter)]

\* The agent's DID, and what uuidv4() gives for a nonce
agentDid == <<"d", ":", "a">>
ClientNonce == <<"n">>

\* connect(): the X-Agent-DID, X-Timestamp, X-Nonce and X-Signature headers,
\* when a signing key is configured; `signed` keeps the message given to sign
NoHeaders == [did |-> <<>>]
connectHeaders ==
    IF config.signingKey # <<>>
    THEN LET signature == sign(build, config.signingKey, Str(agentDid), NoOptions,
                               now, ClientNonce)
         IN  [did |-> agentDid, timestamp |-> signature.timestamp,
              nonce |-> signature.nonce, signature |-> signature.hash,
              signed |-> Str(agentDid)]
    ELSE NoHeaders

\* connect(): a new WebSocket in slot s replaces this.ws, whatever it held;
\* the connection timeout is armed; `who` awaits the promise it returns
connect(c, s, who) ==
    [c EXCEPT !.ws = s,
              !.headers[s] = connectHeaders,
              !.readyState[s] = "CONNECTING",
              !.connectionTimeout[s] = TRUE,
              !.connectPromise[s] = "pending",
              !.closeCall[s] = "none",
              !.waiter[s] = who]

\* The WebSocket in slot s is closed for good: nothing refers to it any more.
\* The promise its connect() returned stays as it was settled.
Gone(c, s) ==
    [c EXCEPT !.readyState[s] = "NONE", !.closeCall[s] = "none",
              !.headers[s] = NoHeaders]

\* openHandler without this.reconnectAttempt = 0
openHandlerKeepsCount(c, s) ==
    [c EXCEPT !.connectionTimeout[s] = FALSE,
              !.isReconnecting = FALSE,
              !.connectPromise[s] = SettlePromise(@, "resolved")]

\* ws.on("open")
openHandler(c, s) ==
    [c EXCEPT !.connectionTimeout[s] = FALSE,
              !.reconnectAttempt = 0,
              !.isReconnecting = FALSE,
              !.connectPromise[s] = SettlePromise(@, "resolved")]

\* errorHandler without clearTimeout(connectionTimeout)
errorHandlerKeepsTimer(c, s) ==
    [c EXCEPT !.connectPromise[s] = SettlePromise(@, "rejected")]

\* ws.on("error")
errorHandler(c, s) ==
    [c EXCEPT !.connectionTimeout[s] = FALSE,
              !.connectPromise[s] = SettlePromise(@, "rejected")]

\* messageHandler that gives up on data it cannot parse: it closes this.ws
messageHandlerClosesOnGarbage(c, data) ==
    IF data.kind # "json"
    THEN IF c.ws # NoSession /\ c.readyState[c.ws] = "OPEN"
         THEN [c EXCEPT !.readyState[c.ws] = "CLOSING", !.closeCall[c.ws] = "close()"]
         ELSE c
    ELSE IF data.id \notin c.pendingRequests THEN c
    ELSE [c EXCEPT !.timeout[data.id] = Cleared,
                   !.result[data.id] =
                       IF c.outcome[data.id] = "pending" THEN data.verdict ELSE @,
                   !.outcome[data.id] = SettlePromise(@, "resolved"),
                   !.settled[data.id] = Append(@, "response"),
                   !.pendingRequests = @ \ {data.id}]

\* messageHandler without clearTimeout(pending.timeout)
messageHandlerKeepsTimer(c, data) ==
    IF data.kind # "json" THEN c
    ELSE IF data.id \notin c.pendingRequests THEN c
    ELSE [c EXCEPT !.result[data.id] =
                       IF c.outcome[data.id] = "pending" THEN data.verdict ELSE @,
                   !.outcome[data.id] = SettlePromise(@, "resolved"),
                   !.settled[data.id] = Append(@, "response"),
                   !.pendingRequests = @ \ {data.id}]

\* messageHandler without this.pendingRequests.delete(response.id)
messageHandlerKeepsEntry(c, data) ==
    IF data.kind # "json" THEN c
    ELSE IF data.id \notin c.pendingRequests THEN c
    ELSE [c EXCEPT !.timeout[data.id] = Cleared,
                   !.result[data.id] =
                       IF c.outcome[data.id] = "pending" THEN data.verdict ELSE @,
                   !.outcome[data.id] = SettlePromise(@, "resolved"),
                   !.settled[data.id] = Append(@, "response")]

\* messageHandler that takes the oldest pending entry, whatever id came
messageHandlerByPosition(c, data) ==
    IF data.kind # "json" THEN c
    ELSE IF c.pendingRequests = {} THEN c
    ELSE LET first == CHOOSE r \in c.pendingRequests :
                          \A q \in c.pendingRequests : r <= q
         IN  [c EXCEPT !.timeout[first] = Cleared,
                       !.result[first] =
                           IF c.outcome[first] = "pending" THEN data.verdict ELSE @,
                       !.outcome[first] = SettlePromise(@, "resolved"),
                       !.settled[first] = Append(@, "response"),
                       !.pendingRequests = @ \ {first}]

\* ws.on("message"): JSON.parse throws on what is no JSON, and the catch drops it
messageHandler(c, data) ==
    IF data.kind # "json" THEN c
    ELSE IF data.id \notin c.pendingRequests THEN c
    ELSE [c EXCEPT !.timeout[data.id] = Cleared,
                   !.result[data.id] =
                       IF c.outcome[data.id] = "pending" THEN data.verdict ELSE @,
                   !.outcome[data.id] = SettlePromise(@, "resolved"),
                   !.settled[data.id] = Append(@, "response"),
                   !.pendingRequests = @ \ {data.id}]

\* for (const [id, pending] of this.pendingRequests)
\*     { clearTimeout(pending.timeout); pending.reject(new Error(error)); }
rejectPending(c, error, event) ==
    [c EXCEPT !.timeout = [r \in Requests |->
                  IF r \in c.pendingRequests THEN Cleared ELSE @[r]],
              !.outcome = [r \in Requests |->
                  IF r \in c.pendingRequests THEN SettlePromise(@[r], error) ELSE @[r]],
              !.settled = [r \in Requests |->
                  IF r \in c.pendingRequests THEN Append(@[r], event) ELSE @[r]]]

\* closeHandler that rejects the waiters but keeps their entries and timers
closeHandlerKeepsTable(c, code, jitter) ==
    LET c1 == [c EXCEPT !.ws = NoSession,
                        !.outcome = [r \in Requests |->
                            IF r \in c.pendingRequests
                            THEN SettlePromise(@[r], "Connection closed") ELSE @[r]],
                        !.settled = [r \in Requests |->
                            IF r \in c.pendingRequests
                            THEN Append(@[r], "close") ELSE @[r]]]
    IN  IF code # NORMAL_CLOSURE /\ config.autoReconnect # "false"
        THEN scheduleReconnect(c1, jitter)
        ELSE c1

\* ws.on("close")
closeHandler(c, code, jitter) ==
    LET c1 == [rejectPending(c, "Connection closed", "close")
                   EXCEPT !.ws = NoSession, !.pendingRequests = {}]
    IN  IF code # NORMAL_CLOSURE /\ config.autoReconnect # "false"
        THEN scheduleReconnect(c1, jitter)
        ELSE c1

\* The context objects a caller may pass, and none
Contexts == {1, 2}
NoContext == 0

\* The keys of params, written by one letter each, in the same sorted order
ParamKey == [agent_did |-> "a", arguments |-> "b", context |-> "c",
             intent_id |-> "i", tool |-> "t"]

\* What uuidv4() gives for the intent id of the r-th request, and what
\* stands for no intent id
IntentId(r) == <<"i", Digits[r + 1]>>
NoIntentId == <<>>
NoIntent == [signed |-> Undef]

\* buildIntent that leaves the intent id a context already has
buildIntentKeepsFirst(c, r) ==
    LET intentId  == IntentId(r)
        params    == Obj(<<Member(ParamKey.agent_did, Str(agentDid)),
                           Member(ParamKey.intent_id, Str(intentId)),
                           Member(ParamKey.tool, Str(c.callArgs[r].tool)),
                           Member(ParamKey.arguments, c.callArgs[r].arguments)>>)
        paramsForSignature ==
            Obj(params.members \o <<Member(ParamKey.context, Undef)>>)
        message   == IF client = "src" THEN Str(agentDid) ELSE paramsForSignature
        c1        == IF /\ c.callArgs[r].context # NoContext
                        /\ c.intentIdMap[c.callArgs[r].context] = NoIntentId
                     THEN [c EXCEPT !.intentIdMap[c.callArgs[r].context] = intentId]
                     ELSE c
    IN  [c1 EXCEPT !.intent[r] =
            IF config.signingKey # <<>>
            THEN [params |-> params, signed |-> message,
                  signature |-> sign(build, config.signingKey, message, NoOptions,
                                     now, ClientNonce)]
            ELSE [params |-> params, signed |-> Undef, signature |-> NoSignature]]

\* requestIntent from `const intentId = uuidv4()` to `const timeoutMs`: the
\* intent id is stored for the context, if one was passed; the intent is built
\* and, with a signing key, signed: src/client.ts signs the agent's DID, the
\* compiled client a copy of params with context undefined.  `signed` keeps
\* the message given to sign.
buildIntent(c, r) ==
    LET intentId  == IntentId(r)
        params    == Obj(<<Member(ParamKey.agent_did, Str(agentDid)),
                           Member(ParamKey.intent_id, Str(intentId)),
                           Member(ParamKey.tool, Str(c.callArgs[r].tool)),
                           Member(ParamKey.arguments, c.callArgs[r].arguments)>>)
        paramsForSignature ==
            Obj(params.members \o <<Member(ParamKey.context, Undef)>>)
        message   == IF client = "src" THEN Str(agentDid) ELSE paramsForSignature
        c1        == IF c.callArgs[r].context # NoContext
                     THEN [c EXCEPT !.intentIdMap[c.callArgs[r].context] = intentId]
                     ELSE c
    IN  [c1 EXCEPT !.intent[r] =
            IF config.signingKey # <<>>
            THEN [params |-> params, signed |-> message,
                  signature |-> sign(build, config.signingKey, message, NoOptions,
                                     now, ClientNonce)]
            ELSE [params |-> params, signed |-> Undef, signature |-> NoSignature]]

\* sendIntent that registers the entry and arms no deadline timer
sendIntentNoDeadline(c, r) ==
    LET c1 == [buildIntent(c, r) EXCEPT !.pendingRequests = @ \cup {r},
                        !.outcome[r] = "pending",
                        !.awaits[r] = NoSession]
    IN  IF c1.ws = NoSession THEN c1
        ELSE IF c1.readyState[c1.ws] = "CONNECTING"
             THEN [c1 EXCEPT !.outcome[r] = "send failed"]
        ELSE IF c1.readyState[c1.ws] = "OPEN"
             THEN [c1 EXCEPT !.wire = Append(@, r), !.sentOn[r] = c1.ws]
        ELSE c1

\* sendIntent that writes first and then arms the deadline and registers: a
\* send that throws leaves no entry and no timer
sendIntentWritesFirst(c, r) ==
    LET c0 == [buildIntent(c, r) EXCEPT !.awaits[r] = NoSession]
        c1 == [c0 EXCEPT !.timeout[r] = timeoutMs,
                         !.pendingRequests = @ \cup {r},
                         !.outcome[r] = "pending"]
    IN  IF c0.ws = NoSession THEN c1
        ELSE IF c0.readyState[c0.ws] = "CONNECTING"
             THEN [c0 EXCEPT !.outcome[r] = "send failed"]
        ELSE IF c0.readyState[c0.ws] = "OPEN"
             THEN [c1 EXCEPT !.wire = Append(@, r), !.sentOn[r] = c1.ws]
        ELSE c1

\* requestIntent from `const intentId` on: build the intent, then arm the
\* deadline, register, this.ws?.send.
\* send throws on a CONNECTING socket (the executor's throw rejects the promise)
\* and drops the data on a CLOSING one.
sendIntent(c, r) ==
    LET c1 == [buildIntent(c, r) EXCEPT !.timeout[r] = timeoutMs,
                        !.pendingRequests = @ \cup {r},
                        !.outcome[r] = "pending",
                        !.awaits[r] = NoSession]
    IN  IF c1.ws = NoSession THEN c1
        ELSE IF c1.readyState[c1.ws] = "CONNECTING"
             THEN [c1 EXCEPT !.outcome[r] = "send failed"]
        ELSE IF c1.readyState[c1.ws] = "OPEN"
             THEN [c1 EXCEPT !.wire = Append(@, r), !.sentOn[r] = c1.ws]
        ELSE c1

\* What runs once `await this.connect()` on s resumes with a value: requestIntent
\* goes on to send; connect()'s caller and the reconnect timer do nothing more.
connectResolved(c, s) ==
    LET c0 == [c EXCEPT !.waiter[s] = "none"]
    IN  IF c.waiter[s] = "request"
        THEN sendIntent(c0, CHOOSE r \in Requests : c.awaits[r] = s)
        ELSE c0

\* connectRejected for a requestIntent that drew its intent id and recorded it
\* for its context before it awaited connect()
connectRejectedRecordsIntent(c, s, jitter) ==
    LET c0 == [c EXCEPT !.waiter[s] = "none"]
    IN  IF c.waiter[s] = "request"
        THEN LET r == CHOOSE q \in Requests : c.awaits[q] = s
             IN  [buildIntent(c0, r) EXCEPT !.outcome[r] = "connect failed",
                                            !.awaits[r] = NoSession]
        ELSE IF c.waiter[s] = "reconnect"
        THEN scheduleReconnect([c0 EXCEPT !.isReconnecting = FALSE], jitter)
        ELSE c0

\* What runs once it resumes with an error: requestIntent rejects with it; the
\* reconnect timer's catch clears isReconnecting and schedules the next attempt.
connectRejected(c, s, jitter) ==
    LET c0 == [c EXCEPT !.waiter[s] = "none"]
    IN  IF c.waiter[s] = "request"
        THEN LET r == CHOOSE q \in Requests : c.awaits[q] = s
             IN  [c0 EXCEPT !.outcome[r] = "connect failed", !.awaits[r] = NoSession]
        ELSE IF c.waiter[s] = "reconnect"
        THEN scheduleReconnect([c0 EXCEPT !.isReconnecting = FALSE], jitter)
        ELSE c0

\* A handshake that fails or is aborted: the socket emits "error" and then
\* "close" with code 1006, and is gone.
emitErrorAndClose(c, s, jitter) ==
    Gone(closeHandler(errorHandler(c, s), ABNORMAL_CLOSURE, jitter), s)

\* The transport's close, called on socket t as `call`: close() or close(1000).  On a CONNECTING socket the
\* handshake is aborted: "error" then "close" (1006) are emitted before any
\* other task.  On an OPEN one the closing handshake starts.
transportClose(c, t, call, jitter) ==
    IF c.readyState[t] = "CONNECTING"
    THEN emitErrorAndClose(c, t, jitter)
    ELSE IF c.readyState[t] = "OPEN"
    THEN [c EXCEPT !.readyState[t] = "CLOSING", !.closeCall[t] = call]
    ELSE c

\* connectionTimeoutHandler without reject(new Error("A2G connection timeout"))
connectionTimeoutHandlerNoReject(c, s, jitter) ==
    LET t  == c.ws
        c0 == [c EXCEPT !.connectionTimeout[s] = FALSE]
    IN  IF t = NoSession THEN c0
        ELSE connectRejected(transportClose(c0, t, "close()", jitter), t, jitter)

\* The connectionTimeout callback of the connect() that made s:
\* this.ws?.close(); reject(...).  It closes whatever this.ws is by then.
connectionTimeoutHandler(c, s, jitter) ==
    LET t  == c.ws
        c0 == [c EXCEPT !.connectionTimeout[s] = FALSE]
        c1 == IF t = NoSession THEN c0 ELSE transportClose(c0, t, "close()", jitter)
        c2 == [c1 EXCEPT !.connectPromise[s] = SettlePromise(@, "rejected")]
        c3 == connectRejected(c2, s, jitter)
    IN  IF t = NoSession THEN c3 ELSE connectRejected(c3, t, jitter)

\* The deadline callback with this.pendingRequests.clear() for delete(requestId)
requestTimeoutHandlerClearsAll(c, r) ==
    [c EXCEPT !.timeout[r] = Cleared,
              !.pendingRequests = {},
              !.outcome[r] = SettlePromise(@, "A2G request timeout"),
              !.settled[r] = Append(@, "timeout")]

\* The deadline callback of request r
requestTimeoutHandler(c, r) ==
    [c EXCEPT !.timeout[r] = Cleared,
              !.pendingRequests = @ \ {r},
              !.outcome[r] = SettlePromise(@, "A2G request timeout"),
              !.settled[r] = Append(@, "timeout")]

\* disconnect() without clearTimeout(pending.timeout)
disconnectKeepsTimers(c, jitter) ==
    LET t  == c.ws
        c1 == [c EXCEPT !.pendingRequests = {},
                        !.outcome = [r \in Requests |->
                            IF r \in c.pendingRequests
                            THEN SettlePromise(@[r], "Client disconnected") ELSE @[r]],
                        !.settled = [r \in Requests |->
                            IF r \in c.pendingRequests
                            THEN Append(@[r], "disconnect") ELSE @[r]]]
    IN  IF t = NoSession THEN c1
        ELSE connectRejected(transportClose(c1, t, "close(1000)", jitter), t, jitter)

\* disconnect()
disconnect(c, jitter) ==
    LET t  == c.ws
        c1 == [rejectPending(c, "Client disconnected", "disconnect")
                   EXCEPT !.pendingRequests = {}]
    IN  IF t = NoSession THEN c1
        ELSE connectRejected(transportClose(c1, t, "close(1000)", jitter), t, jitter)

\* reportOutcome without the check of this.ws
reportOutcomeAlwaysSends(c, intentId, status) ==
    [c EXCEPT !.reports =
        Append(@, [agent_did |-> agentDid, intent_id |-> intentId,
                   status |-> status, session |-> c.ws])]

\* reportOutcome(intentId, status): one a2g/report is written on an OPEN
\* this.ws; nothing is done otherwise
reportOutcome(c, intentId, status) ==
    IF c.ws = NoSession \/ c.readyState[c.ws] # "OPEN" THEN c
    ELSE [c EXCEPT !.reports =
              Append(@, [agent_did |-> agentDid, intent_id |-> intentId,
                         status |-> status, session |-> c.ws])]

\* getIntentId(context)
getIntentId(c, context) == c.intentIdMap[context]

\* get isConnected
isConnected == ws # NoSession /\ readyState[ws] = "OPEN"

\* ------------------------------------------------------------ the machine
Configs == [autoReconnect : {"undefined", "false"},
            requestTimeoutMs : {0, ConfiguredTimeoutMs},
            signingKey : {<<>>}]

\* No call of the Signer has been made.
NoCall == [op |-> "none"]

SignerIdle ==
    /\ now = 0
    /\ signCall = NoCall
    /\ sig = NoSignature
    /\ verifyCall = NoCall
    /\ compareCall = NoCall

\* No identity is held, no file is stored, no did-sdk call was made
NoIdentity == [type |-> "none"]
NoFiles == <<>>

DidIdle ==
    /\ files = NoFiles
    /\ saved = NoFiles
    /\ held = NoIdentity
    /\ didCall = NoCall
    /\ nCreate = 0

\* A requestIntent call of the plainest kind: no arguments, no context
PlainCall == [tool |-> <<"t">>, arguments |-> Obj(<<>>), context |-> NoContext]

\* The client as its constructor leaves it
ClientIdle ==
    /\ ws = NoSession
    /\ pendingRequests = {}
    /\ reconnectAttempt = 0
    /\ isReconnecting = FALSE
    /\ readyState = [s \in Sessions |-> "NONE"]
    /\ connectionTimeout = [s \in Sessions |-> FALSE]
    /\ connectPromise = [s \in Sessions |-> "none"]
    /\ waiter = [s \in Sessions |-> "none"]
    /\ closeCall = [s \in Sessions |-> "none"]
    /\ awaits = [r \in Requests |-> NoSession]
    /\ timeout = [r \in Requests |-> Cleared]
    /\ backoff = 0
    /\ delay = 0
    /\ outcome = [r \in Requests |-> "none"]
    /\ result = [r \in Requests |-> "none"]
    /\ settled = [r \in Requests |-> <<>>]
    /\ wire = <<>>
    /\ sentOn = [r \in Requests |-> NoSession]
    /\ headers = [s \in Sessions |-> NoHeaders]
    /\ callArgs = [r \in Requests |-> PlainCall]
    /\ intent = [r \in Requests |-> NoIntent]
    /\ intentIdMap = [x \in Contexts |-> NoIntentId]
    /\ reports = <<>>
    /\ nReq = 0
    /\ nConn = 0
    /\ disconnected = FALSE
    /\ last = Event("init", 0, 0)

Init ==
    /\ config \in Configs
    /\ client = "src"
    /\ ClientIdle
    /\ build = "src"
    /\ SignerIdle
    /\ DidIdle

\* One task: the client becomes c, and ev is what ran.
Task(c, ev) ==
    /\ c.backoff <= MaxBackoff
    /\ Becomes(c)
    /\ last' = ev
    /\ config' = config
    /\ client' = client
    /\ UNCHANGED <<signerVars, didVars>>

\* new WebSocket(...): the object takes the first slot that holds none
FreeSlot(s) ==
    /\ nConn < MaxConnects
    /\ readyState[s] = "NONE"
    /\ \A u \in Sessions : u < s => readyState[u] # "NONE"

\* The code of the "close" event that close() on socket t brings about within
\* the task that calls it: 1006 when it aborts a handshake, none otherwise.
Aborted(t) ==
    IF t # NoSession /\ readyState[t] = "CONNECTING" THEN ABNORMAL_CLOSURE ELSE 0

\* The caller calls connect().
Connect ==
    \E s \in Sessions :
        /\ FreeSlot(s)
        /\ Task(connect(Cur, s, "caller"), Event("connect", 0, 0))
        /\ disconnected' = FALSE
        /\ nConn' = nConn + 1
        /\ nReq' = nReq

\* The caller calls requestIntent(tool, args, context): it sends at once on
\* an OPEN this.ws, and otherwise calls connect() and awaits it.
RequestIntentWith(args) ==
    /\ nReq < MaxRequests
    /\ nReq' = nReq + 1
    /\ disconnected' = FALSE
    /\ LET called == [Cur EXCEPT !.callArgs[nReq + 1] = args]
       IN  IF isConnected
           THEN /\ Task(sendIntent(called, nReq + 1),
                        Event("requestIntent", nReq + 1, 0))
                /\ nConn' = nConn
           ELSE \E s \in Sessions :
                   /\ FreeSlot(s)
                   /\ nConn' = nConn + 1
                   /\ Task([connect(called, s, "request")
                               EXCEPT !.awaits[nReq + 1] = s,
                                      !.outcome[nReq + 1] = "connecting"],
                           Event("requestIntent", nReq + 1, 0))

\* The caller calls requestIntent() in the plainest way.
RequestIntent == RequestIntentWith(PlainCall)

\* The caller calls disconnect().
Disconnect ==
    \E j \in Jitters :
        /\ Task(disconnect(Cur, j), Event("disconnect", 0, Aborted(ws)))
        /\ disconnected' = TRUE
        /\ UNCHANGED <<nReq, nConn>>

\* The handshake of s succeeds: "open", then whoever awaited connect() resumes.
\* The event keeps the value the attempt counter had when the handler ran.
OnOpen(s) ==
    /\ readyState[s] = "CONNECTING"
    /\ Task(connectResolved(openHandler([Cur EXCEPT !.readyState[s] = "OPEN"], s), s),
            [op |-> "open", r |-> 0, code |-> 0, attempt |-> reconnectAttempt])
    /\ UNCHANGED <<nReq, nConn, disconnected>>

\* The handshake of s fails: "error", then "close" with 1006, then whoever
\* awaited connect() resumes with the error.
OnError(s) ==
    /\ readyState[s] = "CONNECTING"
    /\ \E j \in Jitters :
          Task(connectRejected(emitErrorAndClose(Cur, s, j), s, j),
               Event("error", 0, ABNORMAL_CLOSURE))
    /\ UNCHANGED <<nReq, nConn, disconnected>>

\* What the peer may send: a response to a request it was sent, a message with
\* an id that is no request's, or bytes that are no JSON.
Frames ==
    [kind : {"json"}, id : {wire[i] : i \in 1..Len(wire)} \cup {UnknownId},
     verdict : Verdicts]
    \cup {[kind |-> "garbage", id |-> UnknownId, verdict |-> "none"]}

\* A message arrives on s.
OnMessage(s) ==
    /\ readyState[s] \in {"OPEN", "CLOSING"}
    /\ \E data \in Frames :
          Task(messageHandler(Cur, data),
               [op |-> "message", r |-> data.id, code |-> 0, kind |-> data.kind,
                verdict |-> data.verdict, hit |-> data.id \in pendingRequests])
    /\ UNCHANGED <<nReq, nConn, disconnected>>

\* The connection of s ends, by the peer, by the network, or as the end of the
\* closing handshake the client began: "close" with its code.
OnClose(s) ==
    /\ readyState[s] \in {"OPEN", "CLOSING"}
    /\ \E code \in CloseCodes, j \in Jitters :
          Task(Gone(closeHandler(Cur, code, j), s),
               Event("close", 0, code))
    /\ UNCHANGED <<nReq, nConn, disconnected>>

\* The connection timeout of the connect() that made s fires.
ConnectionTimeout(s) ==
    /\ connectionTimeout[s]
    /\ \E j \in Jitters :
          Task(connectionTimeoutHandler(Cur, s, j), Event("connectionTimeout", 0, Aborted(ws)))
    /\ UNCHANGED <<nReq, nConn, disconnected>>

\* The deadline of request r is reached and its timer fires.
RequestTimeout(r) ==
    /\ timeout[r] = 0
    /\ Task(requestTimeoutHandler(Cur, r), Event("requestTimeout", r, 0))
    /\ UNCHANGED <<nReq, nConn, disconnected>>

\* A reconnect backoff timer fires: its callback calls connect() and awaits it.
ReconnectTimer ==
    /\ backoff > 0
    /\ \E s \in Sessions :
          /\ FreeSlot(s)
          /\ Task(connect([Cur EXCEPT !.backoff = @ - 1,
                                      !.delay = IF backoff = 1 THEN 0 ELSE @],
                          s, "reconnect"),
                  Event("reconnectTimer", 0, 0))
    /\ nConn' = nConn + 1
    /\ UNCHANGED <<nReq, disconnected>>

\* Time passes: every armed deadline timer has TickMs less to run.
Tick ==
    /\ \E r \in Requests : timeout[r] > 0
    /\ Task([Cur EXCEPT !.timeout = [r \in Requests |->
                 IF @[r] > 0 THEN Max(0, @[r] - TickMs) ELSE @[r]]],
            Event("tick", 0, 0))
    /\ UNCHANGED <<nReq, nConn, disconnected>>

Next ==
    \/ Connect
    \/ RequestIntent
    \/ Disconnect
    \/ \E s \in Sessions : OnOpen(s)
    \/ \E s \in Sessions : OnError(s)
    \/ \E s \in Sessions : OnMessage(s)
    \/ \E s \in Sessions : OnClose(s)
    \/ \E s \in Sessions : ConnectionTimeout(s)
    \/ \E r \in Requests : RequestTimeout(r)
    \/ ReconnectTimer
    \/ Tick

Spec == Init /\ [][Next]_vars

TypeOK ==
    /\ ws \in Sessions \cup {NoSession}
    /\ pendingRequests \subseteq Requests
    /\ reconnectAttempt \in 0..MAX_RECONNECT_ATTEMPTS
    /\ isReconnecting \in BOOLEAN
    /\ \A s \in Sessions : readyState[s] \in {"NONE", "CONNECTING", "OPEN", "CLOSING"}
    /\ ws # NoSession => readyState[ws] # "NONE"
    /\ \A r \in Requests : r \in pendingRequests <=> timeout[r] # Cleared
    /\ backoff \in 0..MaxBackoff

\* The event loop runs every timer callback that is due, and time passes.
FairSpec ==
    /\ Spec
    /\ WF_vars(Tick)
    /\ \A r \in Requests : WF_vars(RequestTimeout(r))

\* ------------------------------------------- the connection manager alone
\* The same client with no requestIntent calls and a run long enough for the
\* reconnect budget to be used up: connect(), disconnect(), the socket events,
\* the connection timeout and the backoff timer.
MaxLongConnects == 8    \* connect() calls in such a run, by whoever makes them

\* new WebSocket(...) in a long run: the object takes the first slot that holds none
LongFreeSlot(s) ==
    /\ nConn < MaxLongConnects
    /\ readyState[s] = "NONE"
    /\ \A u \in Sessions : u < s => readyState[u] # "NONE"

\* The caller calls connect().
LongConnect ==
    \E s \in Sessions :
        /\ LongFreeSlot(s)
        /\ Task(connect(Cur, s, "caller"), Event("connect", 0, 0))
        /\ disconnected' = FALSE
        /\ nConn' = nConn + 1
        /\ nReq' = nReq

\* A reconnect backoff timer fires: its callback calls connect() and awaits it.
LongReconnectTimer ==
    /\ backoff > 0
    /\ \E s \in Sessions :
          /\ LongFreeSlot(s)
          /\ Task(connect([Cur EXCEPT !.backoff = @ - 1,
                                      !.delay = IF backoff = 1 THEN 0 ELSE @],
                          s, "reconnect"),
                  Event("reconnectTimer", 0, 0))
    /\ nConn' = nConn + 1
    /\ UNCHANGED <<nReq, disconnected>>

LongInit == Init /\ config.requestTimeoutMs = 0

LongNext ==
    \/ LongConnect
    \/ Disconnect
    \/ \E s \in Sessions : OnOpen(s)
    \/ \E s \in Sessions : OnError(s)
    \/ \E s \in Sessions : OnClose(s)
    \/ \E s \in Sessions : ConnectionTimeout(s)
    \/ LongReconnectTimer

LongSpec == LongInit /\ [][LongNext]_vars

\* The connection manager in a short run, where connect() is called at most
\* MaxConnects times.
ConnectNext ==
    \/ Connect
    \/ Disconnect
    \/ \E s \in Sessions : OnOpen(s)
    \/ \E s \in Sessions : OnError(s)
    \/ \E s \in Sessions : OnClose(s)
    \/ \E s \in Sessions : ConnectionTimeout(s)
    \/ ReconnectTimer

\* The event loop runs the callback of every connection timeout that is armed.
ConnectFairSpec ==
    /\ LongInit
    /\ [][ConnectNext]_vars
    /\ \A s \in Sessions : WF_vars(ConnectionTimeout(s))

\* ------------------------------------------------- the Signer, as a machine
\* Callers sign messages and verify signatures while the clock moves on, and a
\* signature may be altered on its way from the signer to the verifier.
CustomMaxAgeMs == 1     \* a maxAgeMs a caller may pass to verify

Keys == {<<"k">>, <<"j">>}
\* what uuidv4() may give
Uuids == {<<"n">>}
\* the clock readings of a run
Instants == {0, 5 * 60 * 1000, 5 * 60 * 1000 + 1}
\* the options of sign: none; a nonce; a timestamp that is a decimal number,
\* and a nonce; a timestamp that is no number; both as empty strings
SignOptions ==
    {NoOptions,
     Options(<<>>, <<"s">>, {"nonce"}),
     Options(toString(5 * 60 * 1000 + 1), <<"s">>, {"timestamp", "nonce"}),
     Options(<<"x">>, <<>>, {"timestamp"}),
     Options(<<>>, <<>>, {"timestamp", "nonce"})}
MaxAges == {Undefined, CustomMaxAgeMs}

\* Structured messages: objects with nested objects and arrays, each content in
\* more than one insertion order of its keys, and contents that differ in one
\* value only, at the top, in a nested object, in an array
Leaves == {Num(1), Num(2)}
NestedObjects ==
    UNION {{Obj(<<Member("a", Num(1)), Member("x", v)>>),
            Obj(<<Member("x", v), Member("a", Num(1))>>)} : v \in Leaves}
Arrays ==
    {Arr(<<Num(1), Num(2)>>), Arr(<<Num(2), Num(1)>>)}
    \cup {Arr(<<Obj(<<Member("x", v)>>)>>) : v \in Leaves}
Objects ==
    {Obj(<<Member("a", v)>>) : v \in NestedObjects \cup Arrays}
    \cup UNION {{Obj(<<Member("a", v), Member("b", Num(2))>>),
                 Obj(<<Member("b", Num(2)), Member("a", v)>>)} : v \in Leaves}
Messages == {Str(<<"h", "i">>)} \cup Objects

\* A caller signs a message, with or without options, and takes its hash.
Sign ==
    /\ signCall = NoCall
    /\ \E k \in Keys, m \in Messages, options \in SignOptions, u \in Uuids :
        LET ret == sign(build, k, m, options, now, u)
        IN  /\ signCall' = [op |-> "sign", key |-> k, message |-> m,
                            options |-> options, at |-> now, uuid |-> u, ret |-> ret,
                            digest |-> hash(build, k, m)]
            /\ sig' = ret
            /\ verifyCall' = NoCall
            /\ UNCHANGED <<clientVars, didVars, build, now, compareCall>>

\* The positions at which the hash may be altered: its ends
TamperedAt == {1, DigestLength}

\* The hash of the signature in circulation is altered in one character.
Tamper ==
    /\ signCall # NoCall
    /\ verifyCall = NoCall
    /\ sig = signCall.ret
    /\ \E i \in TamperedAt :
          sig' = [sig EXCEPT !.hash[i] = IF @ = "0" THEN "1" ELSE "0"]
    /\ verifyCall' = NoCall
    /\ UNCHANGED <<clientVars, didVars, build, now, signCall, compareCall>>

\* Time passes.
Advance ==
    /\ verifyCall = NoCall
    /\ \E t \in Instants : t > now /\ now' = t
    /\ verifyCall' = NoCall
    /\ UNCHANGED <<clientVars, didVars, build, signCall, sig, compareCall>>

\* A caller verifies the signature in circulation against a key and a message:
\* the signer's key and any message, or any key and the signed message.
Verify ==
    /\ signCall # NoCall
    /\ verifyCall = NoCall
    /\ \E k \in Keys, m \in Messages, a \in MaxAges, u \in Uuids :
          /\ k = signCall.key \/ m = signCall.message
          /\ verifyCall' = [op |-> "verify", key |-> k, message |-> m, maxAgeMs |-> a,
                            at |-> now,
                            ret |-> verify(build, k, sig, m, a, now, u)]
    /\ UNCHANGED <<clientVars, didVars, build, now, signCall, sig, compareCall>>

SignerInit ==
    /\ config = [autoReconnect |-> "undefined", requestTimeoutMs |-> 0,
                 signingKey |-> <<>>]
    /\ client = "src"
    /\ ClientIdle
    /\ build \in Builds
    /\ SignerIdle
    /\ DidIdle

SignerNext ==
    \/ Sign
    \/ Tamper
    \/ Advance
    \/ Verify

SignerSpec == SignerInit /\ [][SignerNext]_vars

\* ----------------------------------------- the hash comparison alone
MaxCompareLen == 3

\* the characters of the strings compared, and the strings
CompareChars == {"0", "1", "a"}
CompareStrings == UNION {[1..n -> CompareChars] : n \in 0..MaxCompareLen}

\* constantTimeEqual(a, b) is called
Compare ==
    /\ compareCall = NoCall
    /\ \E a \in CompareStrings, b \in CompareStrings :
          compareCall' = [op |-> "compare", a |-> a, b |-> b,
                          ret |-> constantTimeEqual(a, b),
                          run |-> constantTimeRun(a, b)]
    /\ UNCHANGED <<clientVars, didVars, build, now, signCall, sig, verifyCall>>

CompareInit == SignerInit

CompareNext == Compare

CompareSpec == CompareInit /\ [][CompareNext]_vars

\* ------------------------------------------- intents, ids and reports
\* The same client with a signing key or none, in either build, whose caller
\* passes tools, arguments and context objects of its choice, asks for the
\* intent id of a context and reports outcomes.
MaxReports == 1         \* reportOutcome calls that write a report in a run

\* The calls of requestIntent: one, and calls that differ from it in the tool,
\* in the arguments and the context, in the context alone
IntentCall(tool, arguments, context) ==
    [tool |-> tool, arguments |-> arguments, context |-> context]
IntentCalls ==
    {IntentCall(<<"t">>, Obj(<<Member("x", Num(1))>>), 1),
     IntentCall(<<"s">>, Obj(<<Member("x", Num(1))>>), 1),
     IntentCall(<<"t">>, Obj(<<Member("x", Num(2))>>), 2),
     IntentCall(<<"t">>, Obj(<<Member("x", Num(1))>>), NoContext)}
Statuses == {"SUCCESS", "FAILURE"}

\* The caller calls requestIntent(tool, args, context).
RequestIntentAny == \E args \in IntentCalls : RequestIntentWith(args)

\* The caller calls getIntentId(context).
GetIntentId ==
    \E context \in Contexts :
        /\ Task(Cur, [op |-> "getIntentId", r |-> 0, code |-> 0, context |-> context,
                      ret |-> getIntentId(Cur, context)])
        /\ UNCHANGED <<nReq, nConn, disconnected>>

\* The caller calls reportOutcome(intentId, status).
ReportOutcome ==
    /\ Len(reports) < MaxReports
    /\ \E r \in Requests, status \in Statuses :
          Task(reportOutcome(Cur, IntentId(r), status),
               [op |-> "reportOutcome", r |-> 0, code |-> 0, intentId |-> IntentId(r),
                status |-> status])
    /\ UNCHANGED <<nReq, nConn, disconnected>>

\* Without a signing key nothing is signed, and the builds do not differ.
IntentInit ==
    /\ config \in [autoReconnect : {"false"}, requestTimeoutMs : {0},
                   signingKey : {<<>>, <<"k">>}]
    /\ client \in Builds
    /\ ClientIdle
    /\ build \in Builds
    /\ config.signingKey = <<>> => client = "src" /\ build = "src"
    /\ SignerIdle
    /\ DidIdle

IntentNext ==
    \/ Connect
    \/ RequestIntentAny
    \/ GetIntentId
    \/ ReportOutcome
    \/ \E s \in Sessions : OnOpen(s)
    \/ \E s \in Sessions : OnClose(s)

IntentSpec == IntentInit /\ [][IntentNext]_vars

\* ------------------------------------- requests whose connect() fails
\* The same caller, with no signing key, and a transport whose handshakes may
\* fail, time out or be aborted by disconnect().
FailInit == IntentInit /\ config.signingKey = <<>>

FailNext ==
    \/ Connect
    \/ RequestIntentAny
    \/ GetIntentId
    \/ Disconnect
    \/ \E s \in Sessions : OnOpen(s)
    \/ \E s \in Sessions : OnError(s)
    \/ \E s \in Sessions : OnClose(s)
    \/ \E s \in Sessions : ConnectionTimeout(s)

FailSpec == FailInit /\ [][FailNext]_vars

\* ------------------------------------- identities and their storage
MaxNameLen == 3
MaxCreates == 1

\* the characters names are made of: a lowercase letter, a digit, the hyphen,
\* an uppercase letter, the underscore
NameChars == {"a", "1", "-", "A", "_"}
Names == UNION {[1..n -> NameChars] : n \in 0..MaxNameLen}
\* a name that is loaded and deleted whether or not it was saved
OtherName == <<"a", "1">>
\* what Signer.generateKey() gives
GeneratedKey == <<"j">>
\* the options of create: none; a signing key and metadata
CreateOptions ==
    {CreateDIDOptions(<<>>, Undef),
     CreateDIDOptions(<<"k">>, Obj(<<Member("x", Arr(<<Num(1), Str(<<"s">>)>>))>>))}

DidCall(op, name, ret) == [op |-> op, name |-> name, ret |-> ret]

NameOf(doc) == Field(doc, "name").chars

\* AeonDID.create(name, options): the caller holds what it returns
Create ==
    /\ nCreate < MaxCreates
    /\ \E name \in Names, options \in CreateOptions :
           LET ret == create(name, options, now, GeneratedKey)
           IN  /\ didCall' = [op |-> "create", name |-> name,
                              options |-> options, ret |-> ret]
               /\ held' = IF ret.threw THEN held ELSE ret.value
    /\ nCreate' = nCreate + 1
    /\ UNCHANGED <<clientVars, signerVars, files, saved>>

\* did.save() on the identity held
Save ==
    /\ held # NoIdentity
    /\ files' = save(files, held)
    /\ saved' = writeFile(saved, NameOf(held), held)
    /\ didCall' = DidCall("save", NameOf(held), Undef)
    /\ UNCHANGED <<clientVars, signerVars, held, nCreate>>

\* the names the caller loads and deletes
LoadNames == {OtherName} \cup (IF held = NoIdentity THEN {} ELSE {NameOf(held)})

\* AeonDID.load(name)
Load ==
    /\ \E name \in LoadNames : didCall' = DidCall("load", name, load(files, name))
    /\ UNCHANGED <<clientVars, signerVars, files, saved, held, nCreate>>

\* AeonDID.delete(name)
Delete ==
    /\ \E name \in LoadNames :
           /\ files' = delete(files, name).files
           /\ saved' = [n \in (DOMAIN saved) \ {name} |-> saved[n]]
           /\ didCall' = DidCall("delete", name, delete(files, name).ret)
    /\ UNCHANGED <<clientVars, signerVars, held, nCreate>>

DidInit ==
    /\ config = [autoReconnect |-> "undefined", requestTimeoutMs |-> 0,
                 signingKey |-> <<>>]
    /\ client = "src"
    /\ ClientIdle
    /\ build = "src"
    /\ now \in Instants
    /\ signCall = NoCall
    /\ sig = NoSignature
    /\ verifyCall = NoCall
    /\ compareCall = NoCall
    /\ DidIdle

DidNext == Create \/ Save \/ Load \/ Delete

DidSpec == DidInit /\ [][DidNext]_vars

\* ------------------------------------------------------------------ claims
\* The settlement events of C1: a matching response, the deadline, a "close"
\* event, disconnect().
SettlementEvents == {"response", "timeout", "close", "disconnect"}

\* C1: at most one settlement event (response, deadline expiry, connection
\* close, disconnect()) ever fires for a request, in every interleaving.
C1_AtMostOneSettlement ==
    \A r \in Requests :
        /\ Len(settled[r]) <= 1
        /\ \A i \in 1..Len(settled[r]) : settled[r][i] \in SettlementEvents

\* A response settled a request, and a disconnect() that came later added nothing.
C1_Witness ==
    \E r \in Requests :
        /\ settled[r] = <<"response">>
        /\ last.op = "disconnect"
        /\ \E q \in Requests : settled[q] = <<"disconnect">>

\* C2: every request that gets a pending entry is eventually settled, and its
\* entry is eventually removed from the pending table.
C2_EventuallySettled ==
    \A r \in Requests :
        (r \in pendingRequests) ~>
            (r \notin pendingRequests /\ Len(settled[r]) = 1
             /\ outcome[r] \notin {"none", "connecting", "pending"})

\* A request that was registered but never written (this.ws was null) and that
\* no close or disconnect() met: its deadline settled it.
C2_Witness ==
    \E r \in Requests :
        /\ settled[r] = <<"timeout">>
        /\ outcome[r] = "A2G request timeout"
        /\ \A i \in 1..Len(wire) : wire[i] # r
        /\ r \notin pendingRequests

\* A "close" event was handled in this step: a WebSocket object ceased to be.
SessionClosed(s) == readyState[s] # "NONE" /\ readyState'[s] = "NONE"

\* Request r is as it was: its entry, its timer, its promise, its events.
Untouched(r) ==
    /\ (r \in pendingRequests') = (r \in pendingRequests)
    /\ timeout'[r] = timeout[r]
    /\ outcome'[r] = outcome[r]
    /\ result'[r] = result[r]
    /\ settled'[r] = settled[r]

\* C3: when a session's "close" is handled while N requests are pending, all
\* N are rejected with "Connection closed", their deadline timers are
\* cancelled and the pending table is empty right after.  (A disconnect()
\* empties the table itself before the close it causes is handled.)
C3_CloseRejectsAll ==
    [][(\E s \in Sessions : SessionClosed(s)) /\ last'.op # "disconnect" =>
          /\ pendingRequests' = {}
          /\ \A r \in pendingRequests :
                /\ timeout'[r] = Cleared
                /\ settled'[r] = Append(settled[r], "close")
                /\ outcome[r] = "pending" => outcome'[r] = "Connection closed"
          /\ \A r \in Requests \ pendingRequests : settled'[r] = settled[r]]_vars

\* A close met two pending requests and rejected both.
C3_Witness ==
    /\ last.op = "close"
    /\ pendingRequests = {}
    /\ \A r \in Requests :
          /\ outcome[r] = "Connection closed"
          /\ settled[r] = <<"close">>
          /\ timeout[r] = Cleared

\* C4: disconnect() rejects every request pending at that moment with "Client
\* disconnected", cancels its timer, empties the pending table and calls
\* close(1000) on an open transport; such a request is never settled again
\* or otherwise.
C4_DisconnectRejectsAll ==
    [][/\ last'.op = "disconnect" =>
             /\ pendingRequests' = {}
             /\ \A r \in pendingRequests :
                   /\ timeout'[r] = Cleared
                   /\ settled'[r] = Append(settled[r], "disconnect")
                   /\ outcome[r] = "pending" => outcome'[r] = "Client disconnected"
             /\ ws # NoSession /\ readyState[ws] = "OPEN" =>
                   readyState'[ws] = "CLOSING" /\ closeCall'[ws] = "close(1000)"
       /\ \A r \in Requests :
             "disconnect" \in {settled[r][i] : i \in 1..Len(settled[r])} =>
                 /\ settled'[r] = settled[r]
                 /\ outcome'[r] = outcome[r]
                 /\ r \notin pendingRequests']_vars

\* disconnect() met two pending requests on an open session.
C4_Witness ==
    /\ last.op = "disconnect"
    /\ \A r \in Requests : outcome[r] = "Client disconnected"
    /\ \E s \in Sessions : readyState[s] = "CLOSING" /\ closeCall[s] = "close(1000)"

\* C5: after disconnect() no automatic reconnect attempt (a connect() started
\* by the backoff timer) ever occurs, whatever the client's state was then.
C5_NoReconnectAfterDisconnect ==
    ~(disconnected /\ last.op = "reconnectTimer")

\* C6: a reconnect is scheduled, and the reconnecting state entered, only in
\* a task where a session that had reached open closes with a code other
\* than 1000; a connect() that fails before open is never retried.
C6_ReconnectOnlyAfterOpenSessionLost ==
    [][backoff' > backoff \/ (isReconnecting' /\ ~isReconnecting) =>
          /\ last'.code # NORMAL_CLOSURE
          /\ \E s \in Sessions :
                readyState[s] \in {"OPEN", "CLOSING"} /\ SessionClosed(s)]_vars

\* C7: a client owns at most one transport session that is connecting or open.
C7_SingleSession ==
    Cardinality({s \in Sessions : readyState[s] \in {"CONNECTING", "OPEN"}}) <= 1

\* C8: an inbound response resolves the pending request whose id it carries,
\* with the parsed response, and no other request changes, in whatever order
\* responses arrive.
C8_ResponseResolvesItsRequest ==
    [][last'.op = "message" /\ last'.kind = "json" /\ last'.r \in pendingRequests =>
          /\ pendingRequests' = pendingRequests \ {last'.r}
          /\ timeout'[last'.r] = Cleared
          /\ settled'[last'.r] = Append(settled[last'.r], "response")
          /\ outcome[last'.r] = "pending" =>
                outcome'[last'.r] = "resolved" /\ result'[last'.r] = last'.verdict
          /\ \A q \in Requests \ {last'.r} : Untouched(q)]_vars

\* The second request sent was answered first; the first is still pending.
C8_Witness ==
    /\ last.op = "message"
    /\ wire = <<1, 2>>
    /\ outcome[2] = "resolved" /\ result[2] = last.verdict
    /\ outcome[1] = "pending" /\ 1 \in pendingRequests

\* C9: once a response with id X has resolved its waiter, a further message
\* with id X settles nothing and leaves the pending table, the timers and the
\* connection as they are.
C9_DuplicateIgnored ==
    [][(/\ last'.op = "message"
        /\ last'.r \in Requests
        /\ "response" \in {settled[last'.r][i] : i \in 1..Len(settled[last'.r])}) =>
          /\ pendingRequests' = pendingRequests
          /\ \A q \in Requests : Untouched(q)
          /\ ws' = ws /\ readyState' = readyState]_vars

\* A response came a second time for a request already resolved.
C9_Witness ==
    /\ last.op = "message"
    /\ last.r \in Requests
    /\ ~last.hit
    /\ settled[last.r] = <<"response">>
    /\ outcome[last.r] = "resolved"

\* C10: a request gets its own deadline, requestTimeoutMs or 5000 ms by
\* default, when it is registered; when that has run out, the request alone
\* leaves the pending table and is rejected with a timeout error; every other
\* request keeps its entry and its own deadline, and nothing is written to the
\* transport.
C10_TimeoutHitsOneRequest ==
    [][/\ \A r \in Requests :
             r \notin pendingRequests /\ r \in pendingRequests' =>
                 timeout'[r] = IF config.requestTimeoutMs = 0 THEN 5000
                               ELSE config.requestTimeoutMs
       /\ last'.op = "requestTimeout" =>
             /\ timeout[last'.r] = 0
             /\ pendingRequests' = pendingRequests \ {last'.r}
             /\ settled'[last'.r] = Append(settled[last'.r], "timeout")
             /\ outcome[last'.r] = "pending" =>
                   outcome'[last'.r] = "A2G request timeout"
             /\ \A q \in Requests \ {last'.r} : Untouched(q)
             /\ wire' = wire]_vars

\* The first request timed out while the second, registered later, is still
\* pending with time left on its own deadline.
C10_Witness ==
    /\ last.op = "requestTimeout" /\ last.r = 1
    /\ outcome[1] = "A2G request timeout"
    /\ outcome[2] = "pending" /\ 2 \in pendingRequests /\ timeout[2] > 0

\* The reconnect budget is used up: five attempts were scheduled since the last
\* open, the last of them has failed, and no backoff timer is outstanding.
Exhausted ==
    /\ reconnectAttempt = 5
    /\ ~isReconnecting
    /\ backoff = 0

C12_DelayBounds ==
    [][backoff' > backoff =>
          LET N == reconnectAttempt'
              floor == IF 1000 * 2^(N - 1) < 30000 THEN 1000 * 2^(N - 1) ELSE 30000
          IN  /\ N \in 1..5
              /\ delay' >= floor
              /\ delay' < floor + 1000]_vars

\* The fifth attempt was scheduled with the largest jitter: 16000 + 999 ms.
C12_Witness ==
    /\ reconnectAttempt = 5
    /\ isReconnecting
    /\ backoff = 1
    /\ delay = 16999

\* C13: the "open" handler sets the attempt counter to 0 and clears the
\* reconnecting flag; from there, the loss of a session (a close with a code
\* other than 1000, auto-reconnect not disabled) schedules attempt 1 with the
\* delay of a first attempt.
C13_OpenResetsBackoff ==
    [][/\ last'.op = "open" => reconnectAttempt' = 0 /\ ~isReconnecting'
       /\ (/\ last'.op = "close"
           /\ last'.code # 1000
           /\ config.autoReconnect # "false"
           /\ reconnectAttempt = 0
           /\ ~isReconnecting) =>
             /\ reconnectAttempt' = 1
             /\ isReconnecting'
             /\ backoff' = backoff + 1
             /\ delay' \in 1000..1999]_vars

\* The fifth and last attempt opened its session: the counter went from 5 to 0.
C13_Witness ==
    /\ last.op = "open"
    /\ last.attempt = 5
    /\ reconnectAttempt = 0
    /\ ~isReconnecting

\* C14: when an open session closes, a reconnect is scheduled if and only if
\* the code is not 1000 and autoReconnect is not false; with autoReconnect
\* false no backoff timer ever calls connect().
C14_ReconnectIffAbnormalAndEnabled ==
    [][/\ (/\ last'.op = "close"
           /\ \E s \in Sessions :
                 readyState[s] \in {"OPEN", "CLOSING"} /\ SessionClosed(s)) =>
             (backoff' > backoff <=>
                 (last'.code # 1000 /\ config.autoReconnect # "false"))
       /\ config.autoReconnect = "false" => last'.op # "reconnectTimer"]_vars

\* C15: every connect() call is settled in the end: resolved by the "open" of
\* its socket, rejected by its connection timeout or by a transport error,
\* whichever comes first; right after it is rejected, isConnected is false.
C15_ConnectSettles ==
    /\ \A s \in Sessions :
          (connectPromise[s] = "pending") ~> (connectPromise[s] # "pending")
    /\ [][\A s \in Sessions :
             /\ (/\ connectPromise[s] = "pending"
                 /\ readyState[s] = "CONNECTING"
                 /\ readyState'[s] = "OPEN") => connectPromise'[s] = "resolved"
             /\ (/\ connectPromise[s] = "pending"
                 /\ last'.op \in {"error", "connectionTimeout"}
                 /\ connectionTimeout[s]
                 /\ ~connectionTimeout'[s]) => connectPromise'[s] = "rejected"
             /\ (connectPromise[s] = "pending" /\ connectPromise'[s] = "rejected") =>
                   ~(ws' # NoSession /\ readyState'[ws'] = "OPEN")]_vars

\* A connect() was rejected by its connection timeout while its socket goes on
\* connecting: the timeout closed the session this.ws held by then, an open one.
C15_Witness ==
    /\ last.op = "connectionTimeout"
    /\ \E s \in Sessions :
          /\ connectPromise[s] = "rejected"
          /\ readyState[s] = "CONNECTING"
    /\ \E t \in Sessions :
          /\ readyState[t] = "CLOSING"
          /\ closeCall[t] = "close()"
    /\ ~isConnected

\* C16: intent messages are written to the transport in the order in which
\* their requestIntent calls were made (requests are numbered in call order).
C16_WrittenInCallOrder ==
    \A i, j \in 1..Len(wire) : i < j => wire[i] < wire[j]

\* The signature in circulation is the one sign returned.
Untampered == sig = signCall.ret

\* A verify call has been made with the signer's key and the signed message.
VerifiedAsSigned ==
    /\ verifyCall # NoCall
    /\ verifyCall.key = signCall.key
    /\ verifyCall.message = signCall.message

\* C17: for every key k and message m, string or structured,
\* verify(k, sign(k, m), m) is true when verify runs at the clock reading of
\* sign, with the default maximum age.
C17_RoundTrip ==
    (/\ VerifiedAsSigned
     /\ Untampered
     /\ signCall.options = NoOptions
     /\ verifyCall.at = signCall.at
     /\ verifyCall.maxAgeMs = Undefined) => verifyCall.ret = TRUE

\* A structured message with a nested object, signed and verified at the same
\* clock reading by the build of src/signer.ts.
C17_Witness ==
    /\ VerifiedAsSigned
    /\ Untampered
    /\ build = "src"
    /\ signCall.options = NoOptions
    /\ signCall.message \in {Obj(<<Member("a", v)>>) : v \in NestedObjects}
    /\ verifyCall.at = signCall.at
    /\ signCall.at > 0
    /\ verifyCall.maxAgeMs = Undefined
    /\ verifyCall.ret = TRUE

\* The hash in circulation differs from the hash sign produced in some character.
HashAltered ==
    \E i \in 1..DigestLength : sig.hash[i] # signCall.ret.hash[i]

\* C18: verify returns false whenever the hash of the signature differs in any
\* character from the hash sign produced, and whenever the key given to
\* verify differs from the key used to sign.
C18_TamperDetected ==
    /\ (VerifiedAsSigned /\ HashAltered) => verifyCall.ret = FALSE
    /\ (/\ verifyCall # NoCall
        /\ verifyCall.message = signCall.message
        /\ verifyCall.key # signCall.key
        /\ Untampered) => verifyCall.ret = FALSE

\* A fresh signature whose hash was altered in its last character only, the
\* one the comparison loop reaches last, was refused.
C18_Witness ==
    /\ VerifiedAsSigned
    /\ HashAltered
    /\ \A i \in 1..(DigestLength - 1) : sig.hash[i] = signCall.ret.hash[i]
    /\ sig.timestamp = signCall.ret.timestamp
    /\ verifyCall.at = signCall.at
    /\ verifyCall.maxAgeMs = Undefined
    /\ verifyCall.ret = FALSE

\* The signature in circulation carries a timestamp that reads as a number.
Timestamped == ~parseInt(sig.timestamp).isNaN

\* The age of the signature at the verify call (now - timestamp), and the
\* maximum age of that call
Age == verifyCall.at - parseInt(sig.timestamp).n
MaxAge ==
    IF verifyCall.maxAgeMs = Undefined THEN 5 * 60 * 1000 ELSE verifyCall.maxAgeMs

\* C19: verify returns false for every signature whose timestamp is more than
\* max_age_ms older than the current time, even when its hash is correct; a
\* signature exactly max_age_ms old, or one timestamped in the future, is not
\* rejected by the age check: with a correct hash it is accepted.
C19_AgeCheck ==
    /\ (verifyCall # NoCall /\ Timestamped /\ Age > MaxAge) => verifyCall.ret = FALSE
    /\ (/\ VerifiedAsSigned
        /\ Untampered
        /\ Timestamped
        /\ Age <= MaxAge) => verifyCall.ret = TRUE

\* A signature with a correct hash, one millisecond older than the default
\* maximum age, was refused.
C19_Witness ==
    /\ VerifiedAsSigned
    /\ Untampered
    /\ Timestamped
    /\ verifyCall.maxAgeMs = Undefined
    /\ Age = MaxAge + 1
    /\ verifyCall.ret = FALSE

\* Two values are structurally equal: the same number; arrays of the same
\* length whose elements are, index by index; objects with the same keys
\* whose values are, key by key, in whatever order the keys were inserted.
RECURSIVE SameStructure(_, _)
SameStructure(x, y) ==
    IF x.type # y.type THEN FALSE
    ELSE IF x.type = "string" THEN x.chars = y.chars
    ELSE IF x.type = "number" THEN x.n = y.n
    ELSE IF x.type = "array"
    THEN /\ Len(x.items) = Len(y.items)
         /\ \A i \in 1..Len(x.items) : SameStructure(x.items[i], y.items[i])
    ELSE /\ {x.members[i].key : i \in 1..Len(x.members)}
              = {y.members[i].key : i \in 1..Len(y.members)}
         /\ \A i \in 1..Len(x.members) :
               SameStructure(x.members[i].value, Get(y, x.members[i].key))

\* y is x with the elements of the array it holds in another order.
ArrayReordered(x, y) ==
    /\ x.type = "object" /\ y.type = "object"
    /\ Len(x.members) = 1 /\ Len(y.members) = 1
    /\ x.members[1].key = y.members[1].key
    /\ x.members[1].value.type = "array" /\ y.members[1].value.type = "array"
    /\ LET xs == x.members[1].value.items
           ys == y.members[1].value.items
       IN  /\ Len(xs) = Len(ys)
           /\ xs # ys
           /\ \A i \in 1..Len(xs) : xs[i] = ys[Len(xs) + 1 - i]

\* C20: for a structured message, sign (with the same key, timestamp and nonce)
\* and hash give the same result for every payload that is structurally equal
\* to it but lists its keys in another order, at the top level and at every
\* nesting level; array elements keep their order, so a payload whose array
\* holds the elements in another order is signed and hashed differently.
C20_KeyOrderIrrelevant ==
    [][(signCall = NoCall /\ signCall' # NoCall /\ signCall'.message.type = "object") =>
          \A m \in Messages :
              LET again == sign(build, signCall'.key, m,
                                Options(signCall'.ret.timestamp, signCall'.ret.nonce,
                                        {"timestamp", "nonce"}),
                                signCall'.at, signCall'.uuid)
                  digest == hash(build, signCall'.key, m)
              IN  /\ SameStructure(signCall'.message, m) =>
                        again = signCall'.ret /\ digest = signCall'.digest
                  /\ ArrayReordered(signCall'.message, m) =>
                        again.hash # signCall'.ret.hash /\ digest # signCall'.digest]_vars

\* A message signed with the keys of its nested object in one order was
\* verified when presented with them in the other order.
C20_Witness ==
    /\ verifyCall # NoCall
    /\ verifyCall.key = signCall.key
    /\ Untampered
    /\ build = "dist"
    /\ signCall.message =
           Obj(<<Member("a", Obj(<<Member("x", Num(2)), Member("a", Num(1))>>))>>)
    /\ verifyCall.message =
           Obj(<<Member("a", Obj(<<Member("a", Num(1)), Member("x", Num(2))>>))>>)
    /\ verifyCall.ret = TRUE

\* The canonical form of a structured value: the keys of every object, at
\* every nesting level, in sorted order; arrays in their own order.
RECURSIVE CanonicalJson(_)
CanonicalJson(value) ==
    IF value.type = "string" THEN <<"\"">> \o value.chars \o <<"\"">>
    ELSE IF value.type = "number" THEN toString(value.n)
    ELSE IF value.type = "array"
    THEN <<"[">> \o Join([i \in 1..Len(value.items) |-> CanonicalJson(value.items[i])])
         \o <<"]">>
    ELSE LET keys == SortKeys(SelectSeq(ObjectKeys(value),
                                   LAMBDA k : Get(value, k).type # "undefined"))
         IN  <<"{">> \o Join([i \in 1..Len(keys) |->
                          <<"\"", keys[i], "\"", ":">>
                          \o CanonicalJson(Get(value, keys[i]))])
             \o <<"}">>

\* What is signed for a message: a string as it is, a structured value in
\* its canonical form
Canonical(message) ==
    IF message.type = "string" THEN message.chars ELSE CanonicalJson(message)

\* The nonces a signature may carry
Nonces == Uuids \cup {<<"s">>}

\* sign was called in this step.
Signed == signCall = NoCall /\ signCall' # NoCall

\* C21: sign is deterministic: for a given key, message, timestamp and nonce
\* it returns the same signature whatever the clock reads and uuidv4() gives;
\* the hash is the HMAC-SHA256 under the key of timestamp ":" nonce ":"
\* canonical(message); the timestamp and the nonce are the supplied ones
\* whenever the caller supplies them.
C21_SignDeterministic ==
    [][Signed =>
          LET call == signCall'
          IN  /\ "timestamp" \in call.options.supplied =>
                    call.ret.timestamp = call.options.timestamp
              /\ "nonce" \in call.options.supplied =>
                    call.ret.nonce = call.options.nonce
              /\ call.ret.hash =
                    createHmac(call.key,
                               call.ret.timestamp \o <<":">> \o call.ret.nonce
                               \o <<":">> \o Canonical(call.message))
              /\ call.options.supplied = {"timestamp", "nonce"} =>
                    \A t \in Instants, u \in Nonces :
                        sign(build, call.key, call.message, call.options, t, u)
                            = call.ret]_vars

\* The requests whose intent was built with a signing key configured
SignedIntents == {r \in Requests : intent[r] # NoIntent /\ config.signingKey # <<>>}

\* What the signature of the intent of r was computed over is message: it is
\* the signature sign gives for it with that timestamp and that nonce.
SignatureOver(r, message) ==
    /\ intent[r].signed = message
    /\ intent[r].signature =
           sign(build, config.signingKey, message,
                Options(intent[r].signature.timestamp, intent[r].signature.nonce,
                        {"timestamp", "nonce"}),
                now, ClientNonce)

\* The params object of the intent of r, as requestIntent was called, with
\* no signature in it: its context is undefined, or absent
ParamsOf(r, context) ==
    Obj(<<Member(ParamKey.agent_did, Str(agentDid)),
          Member(ParamKey.intent_id, Str(IntentId(r))),
          Member(ParamKey.tool, Str(callArgs[r].tool)),
          Member(ParamKey.arguments, callArgs[r].arguments)>> \o context)

\* C22: when a signing key is configured, the signature requestIntent attaches
\* is computed over the params object of the intent (agent_did, intent_id,
\* tool, arguments, context without a signature), so two intents that differ
\* in tool, arguments or intent_id are signed over different messages.
C22_SignedOverParams ==
    /\ \A r \in SignedIntents :
          /\ intent[r].params = ParamsOf(r, <<>>)
          /\ \/ SignatureOver(r, ParamsOf(r, <<>>))
             \/ SignatureOver(r, ParamsOf(r, <<Member(ParamKey.context, Undef)>>))
    /\ \A r, q \in SignedIntents :
          r # q => intent[r].signed # intent[q].signed

\* C23: the message signed for the connection headers and for every intent is
\* the agent's DID alone: for a fixed key, timestamp and nonce the signature
\* does not depend on the tool, the arguments or the intent id.
C23_SignedOverDidOnly ==
    /\ \A s \in Sessions :
          headers[s] # NoHeaders =>
              /\ headers[s].signed = Str(agentDid)
              /\ headers[s].signature =
                     createHmac(config.signingKey,
                                headers[s].timestamp \o <<":">> \o headers[s].nonce
                                \o <<":">> \o agentDid)
    /\ \A r \in SignedIntents :
          /\ SignatureOver(r, Str(agentDid))
          /\ intent[r].signature.hash =
                 createHmac(config.signingKey,
                            intent[r].signature.timestamp \o <<":">>
                            \o intent[r].signature.nonce \o <<":">> \o agentDid)
    /\ \A r, q \in SignedIntents :
          (/\ intent[r].signature.timestamp = intent[q].signature.timestamp
           /\ intent[r].signature.nonce = intent[q].signature.nonce) =>
              intent[r].signature = intent[q].signature

\* The requests made so far to which context was passed
PassedTo(context) == {r \in 1..nReq : callArgs[r].context = context}

\* The intent of request r is built in this step.
Built(r) == intent[r] = NoIntent /\ intent'[r] # NoIntent

\* C24: after requestIntent(tool, args, context) has sent its message,
\* getIntentId(context) returns the intent id carried in that message; when
\* the context was passed to several requests, that of the one whose message
\* was built last; for a context never passed to requestIntent it returns
\* undefined.
C24_IntentIdOfContext ==
    /\ [](\A context \in Contexts :
             PassedTo(context) = {} => intentIdMap[context] = NoIntentId)
    /\ [][/\ \A r \in Requests :
                Built(r) =>
                    /\ Get(intent'[r].params, ParamKey.intent_id) = Str(IntentId(r))
                    /\ callArgs'[r].context # NoContext =>
                           intentIdMap'[callArgs'[r].context] = IntentId(r)
          /\ \A r \in Requests :
                (Len(wire') > Len(wire) /\ wire'[Len(wire')] = r) => Built(r)
          /\ \A context \in Contexts :
                (\A r \in Requests : Built(r) => callArgs'[r].context # context) =>
                    intentIdMap'[context] = intentIdMap[context]
          /\ last'.op = "getIntentId" =>
                last'.ret = intentIdMap[last'.context]]_vars

\* The same context was passed to two requests, both were sent, and
\* getIntentId gave the intent id of the second.
C24_Witness ==
    /\ last.op = "getIntentId"
    /\ wire = <<1, 2>>
    /\ callArgs[1].context = last.context
    /\ callArgs[2].context = last.context
    /\ last.ret = IntentId(2)
    /\ last.ret = Get(intent[2].params, ParamKey.intent_id).chars

\* C25: reportOutcome never adds a pending entry, starts no timer and waits
\* for no response: it writes one a2g/report message when the session is
\* open, and when the session is not open it returns without sending and
\* without connecting.
C25_ReportFireAndForget ==
    [][last'.op = "reportOutcome" =>
          /\ pendingRequests' = pendingRequests
          /\ timeout' = timeout
          /\ connectionTimeout' = connectionTimeout
          /\ backoff' = backoff
          /\ outcome' = outcome /\ awaits' = awaits /\ settled' = settled
          /\ ws' = ws /\ readyState' = readyState /\ nConn' = nConn
          /\ connectPromise' = connectPromise
          /\ wire' = wire
          /\ reports' = IF isConnected
                        THEN Append(reports, [agent_did |-> agentDid,
                                              intent_id |-> last'.intentId,
                                              status |-> last'.status,
                                              session |-> ws])
                        ELSE reports]_vars

\* A report was written on the open session while a request was pending.
C25_Witness ==
    /\ last.op = "reportOutcome"
    /\ Len(reports) = 1
    /\ reports[1].intent_id = last.intentId
    /\ pendingRequests # {}
    /\ isConnected

\* --- C26
\* The lowercase letters and the digits among the characters strings have here
LowercaseLetters == {"a", "b", "c", "d", "h", "i", "j", "k", "n", "s", "t", "x"}
DecimalDigits == {Digits[d] : d \in 1..Len(Digits)}

\* Non-empty, only lowercase letters, digits and hyphens, no hyphen first or last
ValidName(name) ==
    /\ name # <<>>
    /\ \A i \in 1..Len(name) : name[i] \in LowercaseLetters \cup DecimalDigits \cup {"-"}
    /\ name[1] # "-"
    /\ name[Len(name)] # "-"

\* C26: AeonDID.create(name) succeeds exactly when name is non-empty, consists
\* only of lowercase letters, digits and hyphens, and neither starts nor ends
\* with a hyphen; it then yields the DID "did:aeon:" + name; for every other
\* name it throws and creates no identity.
C26_CreateValidates ==
    [][didCall'.op = "create" =>
          LET name == didCall'.name
              ret  == didCall'.ret
          IN  /\ ~ret.threw <=> ValidName(name)
              /\ ~ret.threw =>
                     /\ held' = ret.value
                     /\ Field(held', "did") =
                            Str(<<"d", "i", "d", ":", "a", "e", "o", "n", ":">> \o name)
                     /\ Field(held', "name") = Str(name)
              /\ ret.threw => held' = held /\ ret.value = Undef]_vars

\* A name with a hyphen inside was accepted: a-1 became did:aeon:a-1
C26_Witness ==
    /\ didCall.op = "create"
    /\ didCall.name = <<"a", "-", "1">>
    /\ ~didCall.ret.threw
    /\ held # NoIdentity
    /\ Field(held, "did") = Str(<<"d", "i", "d", ":", "a", "e", "o", "n", ":", "a", "-", "1">>)

C28_BackoffTimerCancelled ==
    /\ [](backoff <= 1)
    /\ [][/\ \A s \in Sessions :
                (/\ readyState[s] = "CONNECTING"
                 /\ readyState'[s] = "OPEN"
                 /\ waiter[s] # "reconnect") => backoff' = 0
          /\ last'.op = "reconnectTimer" =>
                \A s \in Sessions : readyState[s] # "OPEN"]_vars

\* --- C29
\* The events that settle a request and race its deadline
RacedEvents == {"response", "close", "disconnect"}
EventsOf(r) == {settled[r][i] : i \in 1..Len(settled[r])}

\* C29: a request's deadline timer is cancelled when the request is settled by
\* a response, by connection close or by disconnect(), and a connect attempt's
\* connection-timeout timer is cancelled when that attempt opens or errors:
\* neither kind of timer ever fires after the event it raced.
C29_TimersCancelled ==
    /\ [](/\ \A r \in Requests :
                EventsOf(r) \cap RacedEvents # {} => timeout[r] = Cleared
          /\ \A s \in Sessions :
                connectionTimeout[s] =>
                    readyState[s] = "CONNECTING" /\ connectPromise[s] = "pending")
    /\ [][/\ \A r \in Requests :
                (/\ settled'[r] # settled[r]
                 /\ settled'[r][Len(settled'[r])] \in RacedEvents) =>
                    timeout[r] # Cleared /\ timeout'[r] = Cleared
          /\ last'.op = "requestTimeout" =>
                /\ EventsOf(last'.r) \cap RacedEvents = {}
                /\ timeout[last'.r] # Cleared
          /\ last'.op \in {"open", "error"} =>
                \A s \in Sessions :
                    readyState[s] = "CONNECTING" /\ readyState'[s] # "CONNECTING" =>
                        ~connectionTimeout'[s]
          /\ last'.op = "connectionTimeout" =>
                \E s \in Sessions :
                    /\ connectionTimeout[s] /\ ~connectionTimeout'[s]
                    /\ readyState[s] = "CONNECTING"
                    /\ connectPromise[s] = "pending"]_vars

\* One request was settled by its response, the other by disconnect(), on a
\* session that had opened: no deadline timer and no connection timeout is left
C29_Witness ==
    /\ \E r, q \in Requests :
          /\ settled[r] = <<"response">>
          /\ settled[q] = <<"disconnect">>
    /\ \A r \in Requests : timeout[r] = Cleared
    /\ \A s \in Sessions : ~connectionTimeout[s]
    /\ \E s \in Sessions : connectPromise[s] = "resolved"
    /\ config.requestTimeoutMs # 0

\* --- C30
\* C30: requestIntent registers the pending entry and starts its deadline timer
\* before the message is written to the transport, so no response can be
\* delivered for a request that has no pending entry yet.  (What was done
\* before the write shows when the write throws: the entry and the timer are
\* there.)
C30_RegisteredBeforeWritten ==
    /\ [](\A i \in 1..Len(wire) :
              wire[i] \in pendingRequests \/ settled[wire[i]] # <<>>)
    /\ [][/\ wire' # wire =>
                LET r == wire'[Len(wire')]
                IN  /\ wire' = Append(wire, r)
                    /\ r \notin pendingRequests
                    /\ r \in pendingRequests'
                    /\ timeout'[r] = timeoutMs
          /\ \A r \in Requests :
                outcome'[r] = "send failed" /\ outcome[r] # "send failed" =>
                    r \in pendingRequests' /\ timeout'[r] = timeoutMs
          /\ (/\ last'.op = "message"
              /\ last'.kind = "json"
              /\ last'.r \in Requests
              /\ last'.r \notin pendingRequests) =>
                settled[last'.r] # <<>>]_vars

\* A response came for a request right after it was written and found its
\* entry, while the other request, whose write threw, is registered with its
\* deadline timer running
C30_Witness ==
    /\ last.op = "message"
    /\ last.hit
    /\ settled[last.r] = <<"response">>
    /\ \E q \in Requests :
          /\ outcome[q] = "send failed"
          /\ q \in pendingRequests
          /\ timeout[q] = timeoutMs

\* --- C31
\* C31: an inbound message that cannot be parsed, or whose id matches no
\* pending entry, is discarded: it settles no request, leaves the pending
\* table, the timers and the connection state unchanged, and does not close
\* the connection.
C31_UnmatchedDiscarded ==
    [][(/\ last'.op = "message"
        /\ last'.kind # "json" \/ last'.r \notin pendingRequests) =>
          /\ pendingRequests' = pendingRequests
          /\ timeout' = timeout
          /\ outcome' = outcome /\ result' = result /\ settled' = settled
          /\ connectionTimeout' = connectionTimeout
          /\ backoff' = backoff /\ delay' = delay
          /\ reconnectAttempt' = reconnectAttempt
          /\ isReconnecting' = isReconnecting
          /\ ws' = ws /\ readyState' = readyState /\ closeCall' = closeCall
          /\ connectPromise' = connectPromise
          /\ wire' = wire]_vars

\* Bytes that are no JSON arrived on the open session while a request was
\* pending with its deadline running: it is pending still
C31_Witness ==
    /\ last.op = "message"
    /\ last.kind = "garbage"
    /\ isConnected
    /\ \E r \in pendingRequests : outcome[r] = "pending" /\ timeout[r] > 0

\* --- C32
\* C32: the hash comparison used by verify returns true exactly when the two
\* strings are identical, and for two strings of equal length it examines
\* every position before returning, whether or not an earlier position already
\* differs (the number of comparison steps depends only on the length).
C32_ComparesEveryPosition ==
    compareCall # NoCall =>
        /\ compareCall.ret = (compareCall.a = compareCall.b)
        /\ compareCall.run.ret = compareCall.ret
        /\ Len(compareCall.a) = Len(compareCall.b) =>
               compareCall.run.rounds = Len(compareCall.a)

\* Two strings of the same length that differ in the first position already
\* were compared in every position
C32_Witness ==
    /\ compareCall # NoCall
    /\ compareCall.a = <<"0", "1", "a">>
    /\ compareCall.b = <<"1", "1", "a">>
    /\ compareCall.ret = FALSE
    /\ compareCall.run.rounds = Len(compareCall.a)

\* --- C33
\* C33: the close event of a session that has already been superseded by a
\* newer session (created by a later connect()) does not clear the client's
\* reference to the newer session and does not reject requests that were sent
\* on the newer session.
C33_SupersededCloseHarmless ==
    [][\A s \in Sessions :
          (/\ last'.op = "close"
           /\ SessionClosed(s)
           /\ ws # NoSession
           /\ ws # s) =>
              /\ ws' = ws
              /\ \A r \in pendingRequests :
                    sentOn[r] = ws => Untouched(r)]_vars

\* --- C34
\* C34: every request that has a pending entry was written to a session that
\* was open at the moment of the write: requestIntent never registers a
\* request and then skips the write because the session reference is null, or
\* fails the write because the current session is still connecting, in any
\* interleaving with other connect() calls and close events.
C34_PendingWasWritten ==
    \A r \in Requests :
        /\ r \in pendingRequests =>
               /\ sentOn[r] # NoSession
               /\ \E i \in 1..Len(wire) : wire[i] = r
        /\ outcome[r] # "send failed"

\* --- C35
\* The connect() that requestIntent call r made has failed
ConnectFailed(r) == outcome[r] = "connect failed"

\* C35: if the connect() that requestIntent performs because the client is not
\* connected fails, requestIntent rejects with that failure and leaves the
\* request state untouched: no pending entry is registered, no deadline timer
\* is started, nothing is sent, and no context-to-intent_id association is
\* recorded.
C35_FailedConnectLeavesNothing ==
    /\ [](\A r \in Requests :
              ConnectFailed(r) =>
                  /\ r \notin pendingRequests
                  /\ timeout[r] = Cleared
                  /\ sentOn[r] = NoSession
                  /\ \A i \in 1..Len(wire) : wire[i] # r
                  /\ intent[r] = NoIntent
                  /\ settled[r] = <<>>
                  /\ \A x \in Contexts : intentIdMap[x] # IntentId(r))
    /\ [][\A r \in Requests :
              ConnectFailed(r)' /\ ~ConnectFailed(r) =>
                  /\ outcome[r] = "connecting"
                  /\ pendingRequests' \subseteq pendingRequests
                  /\ wire' = wire
                  /\ intentIdMap' = intentIdMap
                  /\ \A q \in Requests : timeout'[q] = timeout[q] \/ timeout'[q] = Cleared]_vars

\* A requestIntent that passed a context failed to connect, and getIntentId
\* for that context, which no other call passed, finds nothing
C35_Witness ==
    /\ last.op = "getIntentId"
    /\ last.ret = NoIntentId
    /\ \E r \in Requests :
          /\ ConnectFailed(r)
          /\ callArgs[r].context = last.context
          /\ \A q \in Requests \ {r} : callArgs[q].context # last.context \/ outcome[q] = "none"

\* --- C36
\* The signature sign returned was verified with the signer's key against a
\* structured message whose content is not that of the structured message
\* signed.
VerifiedAgainstOtherContent ==
    /\ verifyCall # NoCall
    /\ verifyCall.key = signCall.key
    /\ Untampered
    /\ signCall.message.type = "object"
    /\ verifyCall.message.type = "object"
    /\ ~SameStructure(signCall.message, verifyCall.message)

\* C36: verify(k, sign(k, m), m2) returns false for every structured message
\* m2 whose content differs from m in any value, including values nested
\* inside objects or inside arrays: two payloads with different content never
\* share a canonical form.
C36_DifferentContentRejected ==
    VerifiedAgainstOtherContent =>
        /\ verifyCall.ret = FALSE
        /\ stableStringify(build, signCall.message)
               # stableStringify(build, verifyCall.message)

\* --- C37
\* The timestamp of the signature in circulation is a decimal number: digits
\* only, at least one.
DecimalTimestamp ==
    /\ sig.timestamp # <<>>
    /\ \A i \in 1..Len(sig.timestamp) : IsDigit(sig.timestamp[i])

\* C37: every signature that verify accepts carries a timestamp that is a
\* decimal number no more than max_age_ms older than the current time; a
\* signature whose timestamp does not parse as a number is rejected even when
\* its hash matches.
C37_AcceptedIsTimestamped ==
    /\ (verifyCall # NoCall /\ verifyCall.ret = TRUE) =>
           /\ DecimalTimestamp
           /\ Age <= MaxAge
    /\ (verifyCall # NoCall /\ ~Timestamped) => verifyCall.ret = FALSE

====
